---- MODULE Spec2Model ----
(***************************************************************************)
(* RailwayAI: the network model, the conflict detector, the conflict       *)
(* resolver and the adjustment applier of cpp/src/railway_scheduler.cpp,   *)
(* and the public RailwaySchedulerAPI of cpp/src/railway_api.cpp.          *)
(*                                                                         *)
(* Units.  The code computes in double.  The model keeps                   *)
(*   - positions and lengths in whole kilometres,                          *)
(*   - velocities in whole km/h,                                           *)
(*   - minutes of adjustment, delay and arrival in TENTHS of a minute      *)
(*     (0.5 min is 5, 5.0 * severity is 50 * severity),                    *)
(*   - confidences in HUNDREDTHS (0.90 is 90),                             *)
(*   - estimated times and API severities as fractions <<num, den>>, with  *)
(*     <<1, 0>> for +infinity and <<0, 0>> for NaN, as IEEE division gives.*)
(* On the input sets used here (integers 0..120 km, velocities that are    *)
(* multiples of 20 km/h) the double comparisons of the code and the exact  *)
(* comparisons of the model agree.                                         *)
(*                                                                         *)
(* Iteration order.  trains_ and tracks_ are std::unordered_map: the order *)
(* in which a loop visits them is fixed for a given table but unspecified. *)
(* trains_iter, tracks_iter and groups_iter hold that order.  An insertion *)
(* of a new key may rehash, so it leaves the order open (<<>>); the next   *)
(* loop over the table fixes it to any permutation of the keys; an erase   *)
(* keeps the relative order of the remaining keys.                         *)
(***************************************************************************)
EXTENDS Integers, Sequences, FiniteSets, TLC

VARIABLES
    trains,               \* RailwayScheduler::trains_  : id -> Train
    tracks,               \* RailwayScheduler::tracks_  : id -> Track
    stations,             \* RailwayScheduler::stations_: id -> Station
    event_log,            \* RailwayScheduler::event_log_ (kinds of message)
    ml_model_loaded_,     \* RailwayScheduler::ml_model_loaded_
    trains_iter,          \* iteration order of trains_
    tracks_iter,          \* iteration order of tracks_
    groups_iter,          \* iteration order of detect_conflicts' trains_by_track
    total_optimizations,  \* RailwaySchedulerAPI::Impl::total_optimizations
    request,              \* the vector the caller holds for its next call
    ret                   \* the last call and what it returned to the caller

vars == <<trains, tracks, stations, event_log, ml_model_loaded_,
          trains_iter, tracks_iter, groups_iter, total_optimizations,
          request, ret>>

modelVars == <<trains, tracks, stations, event_log, ml_model_loaded_>>
iterVars == <<trains_iter, tracks_iter, groups_iter>>

-----------------------------------------------------------------------------
(* Bounds of the model *)

MaxTrains == 3          \* train ids are 1..MaxTrains
MaxLog == 4             \* the structural specification stops logging here
MaxAdjustments == 2     \* longest adjustment list handed to apply_adjustments
MaxConflicts == 2       \* longest conflict list handed to the resolvers
MaxApiTrains == 2       \* longest train list handed to the public API
MaxOptimizations == 2   \* API calls counted by total_optimizations
MaxLoads == 2           \* load_ml_model calls
MaxMlConflicts == 1     \* longest conflict list handed to resolve_conflicts
MaxApplied == 2         \* adjustments applied before apply_adjustments stops being called
LogRoom == 2            \* most entries the long log of SpecLog has room for at the start
MaxCycles == 3          \* optimize_network calls that find conflicts
MaxPieces == 3          \* pieces of text a JSON input is put together from
MaxParsed == 5          \* trains parse_trains_from_json collects before the model stops following it

(* Program constants *)

LogCap == 1000              \* event_log_.size() > 1000
NoTrain == -1               \* conflict.train2_id = -1, "No specific train"
NoTrack == -1               \* adj.new_track_id = -1
NoPlatform == -1            \* adj.new_platform = -1
HeadOnSeverity == 10
OvertakingSeverity == 5
CapacitySeverity == 7
OvertakingDistance == 2     \* distance < 2.0
HeadOnWindow == 5           \* meeting_time < 5.0
StationSpacing == 50        \* station_pos = 50.0, += 50.0
NearStationA == 5           \* is_near_station(..., 5.0)
NearStationB == 10          \* is_near_station(..., 10.0)
SwitchMinutes == 5          \* 0.5 min, in tenths
DelayPerSeverity == 50      \* 5.0 * severity, in tenths
SwitchConfidence == 90      \* 0.90
DelayConfidence == 75       \* 0.75
DivertMinutes == 10         \* 1.0 min, in tenths
DivertConfidence == 85      \* 0.85
WaitPerTrain == 80          \* 8.0 * (n - 1), in tenths
WaitConfidence == 70        \* 0.70
MinTrainCountStart == 9999  \* int min_train_count = 9999
ApiDistance == 10           \* distance < 10.0
ApiSlowDown == -30          \* -3.0 min, in tenths
ApiConfidence == 85         \* 0.85

-----------------------------------------------------------------------------
(* Arithmetic and sequences *)

Abs(x) == IF x < 0 THEN -x ELSE x

MinOf(S) == CHOOSE x \in S : \A y \in S : x <= y

Range(s) == {s[i] : i \in DOMAIN s}

\* std::remove + erase: every occurrence of x leaves the vector
RemoveAll(s, x) == SelectSeq(s, LAMBDA y : y # x)

\* the ids of a set in ascending order
RECURSIVE SortedIds(_)
SortedIds(ids) ==
    IF ids = {} THEN <<>>
    ELSE LET m == MinOf(ids) IN <<m>> \o SortedIds(ids \ {m})

RECURSIVE Flatten(_)
Flatten(ss) == IF ss = <<>> THEN <<>> ELSE Head(ss) \o Flatten(Tail(ss))

Perms(S) ==
    {p \in [1..Cardinality(S) -> S] : \A x \in S : \E i \in DOMAIN p : p[i] = x}

IsPermOf(s, S) == Len(s) = Cardinality(S) /\ Range(s) = S

\* the orders a loop over a table with these keys can take: the one already
\* fixed, or any, when an insertion left it open
FixIter(cur, keys) == IF IsPermOf(cur, keys) THEN {cur} ELSE Perms(keys)

\* double division n / d on integers: a fraction, +infinity or NaN
Inf == <<1, 0>>
NaN == <<0, 0>>
Quot(n, d) == IF d = 0 THEN (IF n = 0 THEN NaN ELSE Inf)
              ELSE IF d < 0 THEN <<-n, -d>> ELSE <<n, d>>
IsFinite(q) == q[2] # 0
\* q < k and q > k for a fraction q and an integer k (false on inf and NaN
\* where IEEE says so)
FracLess(q, k) == q[2] # 0 /\ q[1] < k * q[2]
FracGreater(q, k) == IF q[2] = 0 THEN q = Inf ELSE q[1] > k * q[2]

-----------------------------------------------------------------------------
(* log_event: append, and drop the oldest entry beyond the cap *)

\* mutant: beyond the cap the new entry is the one dropped
log_event_drops_newest(log, message) ==
    IF Len(log) >= LogCap THEN log ELSE Append(log, message)

log_event(log, message) ==
    LET appended == Append(log, message)
    IN  IF Len(appended) > LogCap THEN Tail(appended) ELSE appended

-----------------------------------------------------------------------------
(* Conflict detector *)

\* mutant: the quotient is not converted from hours to minutes
meeting_time_in_hours(t1, t2) ==
    LET distance == Abs(t1.position_km - t2.position_km)
        relative_velocity == t1.velocity_kmh + t2.velocity_kmh
    IN  IF 10 * relative_velocity < 1
        THEN Inf
        ELSE Quot(distance, relative_velocity)

calculate_meeting_time(t1, t2) ==
    LET distance == Abs(t1.position_km - t2.position_km)
        relative_velocity == t1.velocity_kmh + t2.velocity_kmh
    IN  IF 10 * relative_velocity < 1      \* relative_velocity < 0.1
        THEN Inf
        ELSE Quot(distance * 60, relative_velocity)

\* mutant: the halves of the two trains are not compared
collision_in_any_half(t1, t2, track) ==
    LET meeting_time == calculate_meeting_time(t1, t2)
    IN  FracLess(meeting_time, HeadOnWindow) /\ FracGreater(meeting_time, 0)

check_single_track_collision(t1, t2, track) ==
    LET t1_forward == 2 * t1.position_km < track.length_km
        t2_forward == 2 * t2.position_km < track.length_km
        meeting_time == calculate_meeting_time(t1, t2)
    IN  IF t1_forward = t2_forward
        THEN FALSE
        ELSE FracLess(meeting_time, HeadOnWindow) /\ FracGreater(meeting_time, 0)

HeadOnConflict(t1, t2, track_id) ==
    [train1_id |-> t1.id, train2_id |-> t2.id, track_id |-> track_id,
     conflict_type |-> "head_on",
     estimated_collision_time_minutes |-> calculate_meeting_time(t1, t2),
     severity |-> HeadOnSeverity]

\* distance / ((v1 + v2) / 2.0) * 60.0
OvertakingConflict(t1, t2, track_id) ==
    [train1_id |-> t1.id, train2_id |-> t2.id, track_id |-> track_id,
     conflict_type |-> "overtaking",
     estimated_collision_time_minutes |->
         Quot(Abs(t1.position_km - t2.position_km) * 120,
              t1.velocity_kmh + t2.velocity_kmh),
     severity |-> OvertakingSeverity]

CapacityConflict(train_id, track_id) ==
    [train1_id |-> train_id, train2_id |-> NoTrain, track_id |-> track_id,
     conflict_type |-> "capacity_exceeded",
     estimated_collision_time_minutes |-> Quot(0, 1),
     severity |-> CapacitySeverity]

\* mutant: trains exactly 2 km apart on a double track are reported too
pair_conflict_at_two_km(t1, t2, track) ==
    IF track.is_single_track
    THEN IF check_single_track_collision(t1, t2, track)
         THEN <<HeadOnConflict(t1, t2, track.id)>>
         ELSE <<>>
    ELSE IF Abs(t1.position_km - t2.position_km) <= OvertakingDistance
         THEN <<OvertakingConflict(t1, t2, track.id)>>
         ELSE <<>>

\* the body of the two nested loops for one pair i < j of a track's trains
PairConflict(t1, t2, track) ==
    IF track.is_single_track
    THEN IF check_single_track_collision(t1, t2, track)
         THEN <<HeadOnConflict(t1, t2, track.id)>>
         ELSE <<>>
    ELSE IF Abs(t1.position_km - t2.position_km) < OvertakingDistance
         THEN <<OvertakingConflict(t1, t2, track.id)>>
         ELSE <<>>

\* for (i = 0..) for (j = i + 1..): the pairs in the order the loops visit them
RECURSIVE PairLoop(_, _, _, _, _)
PairLoop(train_ids, i, j, track, trs) ==
    IF i > Len(train_ids) THEN <<>>
    ELSE IF j > Len(train_ids) THEN PairLoop(train_ids, i + 1, i + 2, track, trs)
    ELSE PairConflict(trs[train_ids[i]], trs[train_ids[j]], track)
         \o PairLoop(train_ids, i, j + 1, track, trs)

\* train_ids.size() > static_cast<size_t>(track.capacity): a negative capacity
\* converts to a value above 2^63, which no vector's size exceeds
ExceedsCapacity(size, capacity) == capacity >= 0 /\ size > capacity

\* mutant: one conflict per overfull track instead of one per excess train
CapacityOnce(train_ids, track) ==
    IF ExceedsCapacity(Len(train_ids), track.capacity)
    THEN <<CapacityConflict(train_ids[track.capacity + 1], track.id)>>
    ELSE <<>>

CapacityLoop(train_ids, track) ==
    IF ExceedsCapacity(Len(train_ids), track.capacity)
    THEN [k \in 1..(Len(train_ids) - track.capacity) |->
             CapacityConflict(train_ids[track.capacity + k], track.id)]
    ELSE <<>>

\* trains_by_track[track_id]: the ids in the order the loop over trains_ meets them
TrainsByTrack(trs, titer, track_id) ==
    SelectSeq(titer, LAMBDA id : trs[id].current_track = track_id)

\* the keys of trains_by_track
GroupKeys(trs) == {trs[id].current_track : id \in DOMAIN trs}

TrackConflicts(trs, tks, titer, track_id) ==
    IF track_id \notin DOMAIN tks
    THEN <<>>
    ELSE LET train_ids == TrainsByTrack(trs, titer, track_id)
         IN  PairLoop(train_ids, 1, 2, tks[track_id], trs)
             \o CapacityLoop(train_ids, tks[track_id])

\* detect_conflicts on the tables trs and tks, visited in the orders titer
\* (trains_) and giter (trains_by_track)
DetectOn(trs, tks, titer, giter) ==
    Flatten([g \in DOMAIN giter |-> TrackConflicts(trs, tks, titer, giter[g])])

\* predict_future_conflicts: the projected trains are computed and dropped;
\* future_conflicts is returned as it was declared, empty
FutureTrains(trs, tks, horizon) ==
    [id \in DOMAIN trs |->
        LET moved == trs[id].position_km + (trs[id].velocity_kmh * horizon) \div 60
        IN  [trs[id] EXCEPT !.position_km =
                IF trs[id].current_track \in DOMAIN tks
                THEN (IF tks[trs[id].current_track].length_km < moved
                      THEN tks[trs[id].current_track].length_km ELSE moved)
                ELSE moved]]

predict_future_conflicts(trs, tks, horizon) ==
    LET future_trains == FutureTrains(trs, tks, horizon)
        future_conflicts == <<>>
    IN  future_conflicts

-----------------------------------------------------------------------------
(* Track-switch finder and conflict resolver (ConflictResolver) *)

\* the stations every 50 km strictly inside the track
IntermediateStations(track) ==
    {StationSpacing * k : k \in {n \in 1..(track.length_km \div StationSpacing) :
                                    StationSpacing * n < track.length_km}}

\* mutant: only the two ends of the track count as stations
near_track_ends_only(train, track, max_distance_km) ==
    \/ Abs(train.position_km) <= max_distance_km
    \/ Abs(train.position_km - track.length_km) <= max_distance_km

\* mutant: every position counts as near a station
near_anywhere(train, track, max_distance_km) == TRUE

is_near_station(train, track, max_distance_km) ==
    LET distance_to_start == Abs(train.position_km)
        distance_to_end == Abs(train.position_km - track.length_km)
        min_distance ==
            MinOf({distance_to_start, distance_to_end}
                  \cup {Abs(train.position_km - station_pos) :
                           station_pos \in IntermediateStations(track)})
    IN  min_distance <= max_distance_km

ConnectsDestination(track, train) ==
    \E i \in DOMAIN track.station_ids :
        track.station_ids[i] = train.destination_station

TrainsOnTrack(trs, track_id) ==
    Cardinality({tid \in DOMAIN trs : trs[tid].current_track = track_id})

\* mutant: a single track is accepted in place of a double track
valid_alternative_with_downgrade(train, current_track_id, track_id, tks, trs) ==
    /\ track_id # current_track_id
    /\ ConnectsDestination(tks[track_id], train)
    /\ ~(TrainsOnTrack(trs, track_id) >= tks[track_id].capacity)

\* the three criteria of the loop body, for one candidate
ValidAlternative(train, current_track_id, track_id, tks, trs) ==
    /\ track_id # current_track_id
    /\ ConnectsDestination(tks[track_id], train)
    /\ ~(TrainsOnTrack(trs, track_id) >= tks[track_id].capacity)
    /\ ~(tks[track_id].is_single_track /\ ~tks[current_track_id].is_single_track)

\* mutant: the search finds nothing
no_alternative_track(train, current_track_id, tks, trs, kiter) == NoTrack

\* the first valid candidate in the order the loop visits tracks, or -1
find_alternative_track(train, current_track_id, tks, trs, kiter) ==
    IF current_track_id \notin DOMAIN tks
    THEN NoTrack
    ELSE LET valid == SelectSeq(kiter, LAMBDA track_id :
                          ValidAlternative(train, current_track_id, track_id, tks, trs))
         IN  IF valid = <<>> THEN NoTrack ELSE Head(valid)

\* mutant: on equal priorities the first train is taken
lower_priority_tie_first(t1, t2) ==
    IF t1.priority <= t2.priority THEN t1 ELSE t2

\* t1_lower_priority ? t1 : t2, and the other one
LowerPriorityTrain(t1, t2) ==
    LET t1_lower_priority == t1.priority < t2.priority
    IN  IF t1_lower_priority THEN t1 ELSE t2

HigherPriorityTrain(t1, t2) ==
    LET t1_lower_priority == t1.priority < t2.priority
    IN  IF t1_lower_priority THEN t2 ELSE t1

\* the loop body of resolve_by_priority for one two-train conflict
ResolveOne(conflict, trs, tks, kiter) ==
    LET t1 == trs[conflict.train1_id]
        t2 == trs[conflict.train2_id]
        lower_priority_train == LowerPriorityTrain(t1, t2)
        higher_priority_train == HigherPriorityTrain(t1, t2)
        attempt ==
            /\ conflict.track_id = lower_priority_train.current_track
            /\ conflict.track_id = higher_priority_train.current_track
            /\ conflict.track_id \in DOMAIN tks
            /\ is_near_station(lower_priority_train, tks[conflict.track_id], NearStationA)
        alternative_track ==
            IF attempt
            THEN find_alternative_track(lower_priority_train, conflict.track_id,
                                        tks, trs, kiter)
            ELSE NoTrack
        can_change_track == attempt /\ alternative_track >= 0
    IN  IF can_change_track /\ alternative_track >= 0
        THEN [train_id |-> lower_priority_train.id,
              time_adjustment_minutes |-> SwitchMinutes,
              new_track_id |-> alternative_track,
              new_platform |-> NoPlatform,
              reason |-> "Track switch at station to avoid conflict (priority-based)",
              confidence |-> SwitchConfidence]
        ELSE [train_id |-> lower_priority_train.id,
              time_adjustment_minutes |-> DelayPerSeverity * conflict.severity,
              new_track_id |-> NoTrack,
              new_platform |-> NoPlatform,
              reason |->
                  IF /\ conflict.track_id \in DOMAIN tks
                     /\ is_near_station(lower_priority_train, tks[conflict.track_id],
                                        NearStationA)
                  THEN "Time delay to avoid conflict (no alternative track available at station)"
                  ELSE "Time delay to avoid conflict (not near station for track switch)",
              confidence |-> DelayConfidence]

\* trains.at(id) on an id that is not a key throws std::out_of_range, which
\* nothing in the scheduler catches
OutOfRange == [exception |-> "std::out_of_range"]

\* mutant: the loop ends after the first two-train conflict
RECURSIVE resolve_first_only(_, _, _, _)
resolve_first_only(conflicts, trs, tks, kiter) ==
    IF conflicts = <<>> THEN <<>>
    ELSE IF Head(conflicts).train2_id < 0
         THEN resolve_first_only(Tail(conflicts), trs, tks, kiter)
         ELSE <<ResolveOne(Head(conflicts), trs, tks, kiter)>>

RECURSIVE ResolveLoop(_, _, _, _)
ResolveLoop(conflicts, trs, tks, kiter) ==
    IF conflicts = <<>> THEN <<>>
    ELSE IF Head(conflicts).train2_id < 0
         THEN ResolveLoop(Tail(conflicts), trs, tks, kiter)
         ELSE <<ResolveOne(Head(conflicts), trs, tks, kiter)>>
              \o ResolveLoop(Tail(conflicts), trs, tks, kiter)

resolve_by_priority(conflicts, trs, tks, kiter) ==
    IF \E i \in DOMAIN conflicts :
          /\ ~(conflicts[i].train2_id < 0)
          /\ \/ conflicts[i].train1_id \notin DOMAIN trs
             \/ conflicts[i].train2_id \notin DOMAIN trs
    THEN OutOfRange
    ELSE ResolveLoop(conflicts, trs, tks, kiter)

\* resolve_single_track_conflicts ------------------------------------------

\* conflicts_by_track[track_id], in the order of the input
ConflictsOnTrack(conflicts, track_id) ==
    SelectSeq(conflicts, LAMBDA c : c.track_id = track_id)

\* conflicting_train_ids after sort and unique: train1_id of every conflict
\* of the track, train2_id unless it is -1
ConflictingTrainIds(track_conflicts) ==
    SortedIds({track_conflicts[i].train1_id : i \in DOMAIN track_conflicts}
              \cup {track_conflicts[i].train2_id :
                       i \in {n \in DOMAIN track_conflicts :
                                 track_conflicts[n].train2_id # NoTrain}})

\* mutant: a candidate with room is taken whatever the best count so far
station_candidate_any_room(train, track_id, other_track_id, tks, min_train_count) ==
    /\ other_track_id # track_id
    /\ ~tks[other_track_id].is_single_track
    /\ ConnectsDestination(tks[other_track_id], train)
    /\ Len(tks[other_track_id].active_train_ids) < tks[other_track_id].capacity

\* the test that makes other_track the best candidate so far
StationCandidate(train, track_id, other_track_id, tks, min_train_count) ==
    /\ other_track_id # track_id
    /\ ~tks[other_track_id].is_single_track
    /\ ConnectsDestination(tks[other_track_id], train)
    /\ Len(tks[other_track_id].active_train_ids) < min_train_count
    /\ Len(tks[other_track_id].active_train_ids) < tks[other_track_id].capacity

\* the loop over tracks: <<best_station_track, min_train_count>>
RECURSIVE BestStationTrack(_, _, _, _, _)
BestStationTrack(train, track_id, tks, kiter, best) ==
    IF kiter = <<>> THEN best
    ELSE BestStationTrack(train, track_id, tks, Tail(kiter),
             IF StationCandidate(train, track_id, Head(kiter), tks, best[2])
             THEN <<Head(kiter), Len(tks[Head(kiter)].active_train_ids)>>
             ELSE best)

\* mutant: among equal priorities the last id wins
RECURSIVE priority_train_last_of_equals(_, _, _)
priority_train_last_of_equals(ids, trs, best) ==
    IF ids = <<>> THEN best
    ELSE priority_train_last_of_equals(Tail(ids), trs,
             IF Head(ids) \in DOMAIN trs /\ trs[Head(ids)].priority >= best[2]
             THEN <<Head(ids), trs[Head(ids)].priority>>
             ELSE best)

\* the loop that finds the train with the highest priority:
\* <<priority_train_id, max_priority>>
RECURSIVE PriorityTrain(_, _, _)
PriorityTrain(ids, trs, best) ==
    IF ids = <<>> THEN best
    ELSE PriorityTrain(Tail(ids), trs,
             IF Head(ids) \in DOMAIN trs /\ trs[Head(ids)].priority > best[2]
             THEN <<Head(ids), trs[Head(ids)].priority>>
             ELSE best)

\* the body of the loop over conflicting_train_ids, for one train id
SingleTrackOne(train_id, conflicting_train_ids, track, trs, tks, kiter) ==
    IF train_id \notin DOMAIN trs THEN <<>>
    ELSE LET train == trs[train_id]
             best_station_track ==
                 IF is_near_station(train, track, NearStationB)
                 THEN BestStationTrack(train, track.id, tks, kiter,
                                       <<NoTrack, MinTrainCountStart>>)[1]
                 ELSE NoTrack
             priority_train_id ==
                 PriorityTrain(conflicting_train_ids, trs, <<NoTrain, 0>>)[1]
         IN  IF best_station_track # NoTrack
             THEN <<[train_id |-> train_id,
                     time_adjustment_minutes |-> DivertMinutes,
                     new_track_id |-> best_station_track,
                     new_platform |-> NoPlatform,
                     reason |-> "Single-track conflict: diverted to station track "
                                    \o ToString(best_station_track),
                     confidence |-> DivertConfidence]>>
             ELSE IF train_id # priority_train_id
             THEN <<[train_id |-> train_id,
                     time_adjustment_minutes |->
                         WaitPerTrain * (Len(conflicting_train_ids) - 1),
                     new_track_id |-> NoTrack,
                     new_platform |-> NoPlatform,
                     reason |-> "Single-track conflict: waiting for priority train "
                                    \o ToString(priority_train_id),
                     confidence |-> WaitConfidence]>>
             ELSE <<>>

\* the body of the loop over conflicts_by_track, for one track id
SingleTrackGroup(conflicts, track_id, trs, tks, kiter) ==
    IF track_id \notin DOMAIN tks THEN <<>>
    ELSE IF ~tks[track_id].is_single_track THEN <<>>
    ELSE LET conflicting_train_ids ==
                 ConflictingTrainIds(ConflictsOnTrack(conflicts, track_id))
         IN  Flatten([n \in DOMAIN conflicting_train_ids |->
                         SingleTrackOne(conflicting_train_ids[n], conflicting_train_ids,
                                        tks[track_id], trs, tks, kiter)])

\* the adjustments of the strategy's own rules; citer is the order in which
\* conflicts_by_track is visited
SingleTrackAdjustments(conflicts, trs, tks, kiter, citer) ==
    Flatten([g \in DOMAIN citer |->
                SingleTrackGroup(conflicts, citer[g], trs, tks, kiter)])

\* mutant: the strategy's own adjustments are returned even when there are none
single_track_without_fallback(conflicts, trs, tks, kiter, citer) ==
    SingleTrackAdjustments(conflicts, trs, tks, kiter, citer)

resolve_single_track_conflicts(conflicts, trs, tks, kiter, citer) ==
    LET adjustments == SingleTrackAdjustments(conflicts, trs, tks, kiter, citer)
    IN  IF adjustments = <<>>
        THEN resolve_by_priority(conflicts, trs, tks, kiter)
        ELSE adjustments

\* predict_with_ml: no model is ever run, the heuristic answers
predict_with_ml(conflicts, trs, tks, kiter) ==
    resolve_by_priority(conflicts, trs, tks, kiter)

resolve_conflicts(conflicts, trs, tks, kiter, ml_loaded) ==
    IF ml_loaded
    THEN predict_with_ml(conflicts, trs, tks, kiter)
    ELSE resolve_by_priority(conflicts, trs, tks, kiter)

-----------------------------------------------------------------------------
(* Adjustment applier *)

\* mutant: every adjustment counts as a delay, whatever its sign
timed_counts_every_minute(train, adj) ==
    [train EXCEPT
        !.scheduled_arrival_minutes = @ + adj.time_adjustment_minutes,
        !.is_delayed = TRUE,
        !.delay_minutes = @ + adj.time_adjustment_minutes]

\* the train after the time adjustment
Timed(train, adj) ==
    [train EXCEPT
        !.scheduled_arrival_minutes = @ + adj.time_adjustment_minutes,
        !.is_delayed = IF adj.time_adjustment_minutes > 0 THEN TRUE ELSE @,
        !.delay_minutes = IF adj.time_adjustment_minutes > 0
                          THEN @ + adj.time_adjustment_minutes ELSE @]

\* the body of the loop for an adjustment whose train is in trains_
ApplyToTrain(st, adj) ==
    LET train == st.trains[adj.train_id]
        timed == Timed(train, adj)
        switch == adj.new_track_id >= 0 /\ adj.new_track_id # train.current_track
        removed ==
            IF switch /\ train.current_track \in DOMAIN st.tracks
            THEN [st.tracks EXCEPT ![train.current_track].active_train_ids =
                     RemoveAll(@, train.id)]
            ELSE st.tracks
        added ==
            IF switch /\ adj.new_track_id \in DOMAIN st.tracks
            THEN [removed EXCEPT ![adj.new_track_id].active_train_ids =
                     Append(@, train.id)]
            ELSE removed
    IN  [trains |-> [st.trains EXCEPT ![adj.train_id] =
                        IF switch
                        THEN [timed EXCEPT !.current_track = adj.new_track_id]
                        ELSE timed],
         tracks |-> added,
         log |-> log_event(st.log, "applied")]

\* mutant: the adjustment of an unknown train is logged as applied
apply_one_logs_stale(st, adj) ==
    IF adj.train_id \notin DOMAIN st.trains
    THEN [st EXCEPT !.log = log_event(st.log, "applied")]
    ELSE ApplyToTrain(st, adj)

\* the loop body of apply_adjustments on st = [trains, tracks, log]
ApplyOne(st, adj) ==
    IF adj.train_id \notin DOMAIN st.trains
    THEN st
    ELSE ApplyToTrain(st, adj)

RECURSIVE ApplyLoop(_, _)
ApplyLoop(st, adjustments) ==
    IF adjustments = <<>> THEN st
    ELSE ApplyLoop(ApplyOne(st, Head(adjustments)), Tail(adjustments))

-----------------------------------------------------------------------------
(* Public API (RailwaySchedulerAPI): it keeps no network, only the counter *)

ApiConflict(t1, t2) ==
    LET distance == Abs(t1.position_km - t2.position_km)
    IN  [train1_id |-> t1.id, train2_id |-> t2.id, track_id |-> t1.current_track,
         estimated_time_min |-> Quot(distance * 120, t1.velocity_kmh + t2.velocity_kmh),
         severity |-> Quot(ApiDistance - distance, ApiDistance)]   \* 1.0 - distance / 10.0

RECURSIVE ApiPairLoop(_, _, _)
ApiPairLoop(trainList, i, j) ==
    IF i > Len(trainList) THEN <<>>
    ELSE IF j > Len(trainList) THEN ApiPairLoop(trainList, i + 1, i + 2)
    ELSE (IF /\ trainList[i].current_track = trainList[j].current_track
             /\ Abs(trainList[i].position_km - trainList[j].position_km) < ApiDistance
          THEN <<ApiConflict(trainList[i], trainList[j])>>
          ELSE <<>>)
         \o ApiPairLoop(trainList, i, j + 1)

api_detect_conflicts(trainList) == ApiPairLoop(trainList, 1, 2)

\* the pointer the search loop leaves: the last train of the list with that id
ApiFind(trainList, id) ==
    LET hits == {i \in DOMAIN trainList : trainList[i].id = id}
    IN  IF hits = {} THEN 0 ELSE CHOOSE i \in hits : \A k \in hits : k <= i

ApiResolution(train) ==
    [train_id |-> train.id, time_adjustment_min |-> ApiSlowDown,
     new_track |-> NoTrack, confidence |-> ApiConfidence]

RECURSIVE ApiResolveLoop(_, _)
ApiResolveLoop(conflicts, trainList) ==
    IF conflicts = <<>> THEN <<>>
    ELSE LET c == Head(conflicts)
             i1 == ApiFind(trainList, c.train1_id)
             i2 == ApiFind(trainList, c.train2_id)
         IN  (IF i1 # 0 /\ i2 # 0
              THEN (IF trainList[i1].priority < trainList[i2].priority
                    THEN <<ApiResolution(trainList[i1])>>
                    ELSE <<ApiResolution(trainList[i2])>>)
              ELSE <<>>)
             \o ApiResolveLoop(Tail(conflicts), trainList)

RECURSIVE SumSeq(_)
SumSeq(s) == IF s = <<>> THEN 0 ELSE Head(s) + SumSeq(Tail(s))

\* OptimizationResult of optimize; optimization_time_ms, a wall-clock
\* measurement, is left out.  remaining_conflicts is never assigned.
api_optimize(trainList) ==
    LET conflicts == api_detect_conflicts(trainList)
        resolutions == IF conflicts = <<>> THEN <<>>
                       ELSE ApiResolveLoop(conflicts, trainList)
        adjusted_delay(t) ==
            t.delay_minutes
            + SumSeq([k \in DOMAIN resolutions |->
                        IF resolutions[k].train_id = t.id
                        THEN Abs(resolutions[k].time_adjustment_min) ELSE 0])
    IN  [resolutions |-> resolutions,
         remaining_conflicts |-> <<>>,
         total_delay_minutes |->
             SumSeq([i \in DOMAIN trainList |-> adjusted_delay(trainList[i])]),
         success |-> TRUE,
         error_message |-> ""]

-----------------------------------------------------------------------------
(* What a call hands back *)

Ret(op, args, value) == [op |-> op, args |-> args, value |-> value]
NoRet == Ret("none", <<>>, <<>>)

Put(map, key, value) ==
    [k \in DOMAIN map \cup {key} |-> IF k = key THEN value ELSE map[k]]
Erase(map, key) == [k \in DOMAIN map \ {key} |-> map[k]]

\* tracks_[track.id] = track for each element in turn: the last one with an id stays
LastWithId(items, id) ==
    items[CHOOSE i \in DOMAIN items :
             /\ items[i].id = id
             /\ \A k \in DOMAIN items : items[k].id = id => k <= i]
TableOf(items) == [id \in {items[i].id : i \in DOMAIN items} |-> LastWithId(items, id)]

CurrentTracks(trs) == [id \in DOMAIN trs |-> trs[id].current_track]

\* trains_by_track is filled from a loop over trains_: it is visited in the
\* same order as long as trains_ is visited in the same order and no train
\* changed track
GroupsIterAfter(newTrains, newTrainsIter) ==
    IF CurrentTracks(newTrains) = CurrentTracks(trains) /\ newTrainsIter = trains_iter
    THEN groups_iter
    ELSE <<>>

-----------------------------------------------------------------------------
(* Operations of RailwayScheduler *)

\* RailwayScheduler::RailwayScheduler and RailwaySchedulerAPI::RailwaySchedulerAPI
Constructed ==
    /\ trains = <<>>
    /\ tracks = <<>>
    /\ stations = <<>>
    /\ event_log = log_event(<<>>, "initialized")
    /\ ml_model_loaded_ = FALSE
    /\ trains_iter = <<>>
    /\ tracks_iter = <<>>
    /\ groups_iter = <<>>
    /\ total_optimizations = 0
    /\ ret = NoRet

initialize_network(trackList, stationList) ==
    /\ tracks' = TableOf(trackList)
    /\ stations' = TableOf(stationList)
    /\ event_log' = log_event(event_log, "network")
    /\ tracks_iter' = <<>>
    /\ ret' = NoRet
    /\ UNCHANGED <<trains, ml_model_loaded_, trains_iter, groups_iter,
                   total_optimizations, request>>

add_train(train) ==
    /\ trains' = Put(trains, train.id, train)
    /\ tracks' = IF train.current_track \in DOMAIN tracks
                 THEN [tracks EXCEPT ![train.current_track].active_train_ids =
                          Append(@, train.id)]
                 ELSE tracks
    /\ event_log' = log_event(event_log, "added")
    /\ trains_iter' = IF train.id \in DOMAIN trains THEN trains_iter ELSE <<>>
    /\ groups_iter' = GroupsIterAfter(trains', trains_iter')
    /\ ret' = NoRet
    /\ UNCHANGED <<stations, ml_model_loaded_, tracks_iter, total_optimizations, request>>

remove_train(train_id) ==
    /\ IF train_id \in DOMAIN trains
       THEN LET track_id == trains[train_id].current_track
            IN  /\ trains' = Erase(trains, train_id)
                /\ tracks' = IF track_id \in DOMAIN tracks
                             THEN [tracks EXCEPT ![track_id].active_train_ids =
                                      RemoveAll(@, train_id)]
                             ELSE tracks
                /\ event_log' = log_event(event_log, "removed")
                /\ trains_iter' = RemoveAll(trains_iter, train_id)
                /\ groups_iter' = <<>>
       ELSE UNCHANGED <<trains, tracks, event_log, trains_iter, groups_iter>>
    /\ ret' = NoRet
    /\ UNCHANGED <<stations, ml_model_loaded_, tracks_iter, total_optimizations, request>>

\* last_update, a clock reading, is left out
update_train_state(train_id, position_km, velocity_kmh, is_delayed) ==
    /\ trains' = IF train_id \in DOMAIN trains
                 THEN [trains EXCEPT ![train_id].position_km = position_km,
                                     ![train_id].velocity_kmh = velocity_kmh,
                                     ![train_id].is_delayed = is_delayed]
                 ELSE trains
    /\ ret' = NoRet
    /\ UNCHANGED <<tracks, stations, event_log, ml_model_loaded_, iterVars,
                   total_optimizations, request>>

apply_adjustments(adjustments) ==
    LET st == ApplyLoop([trains |-> trains, tracks |-> tracks, log |-> event_log],
                        adjustments)
    IN  /\ trains' = st.trains
        /\ tracks' = st.tracks
        /\ event_log' = st.log
        /\ groups_iter' = GroupsIterAfter(st.trains, trains_iter)
        /\ ret' = NoRet
        /\ UNCHANGED <<stations, ml_model_loaded_, trains_iter, tracks_iter,
                       total_optimizations, request>>

\* mutant: a call that follows a detect_conflicts call, or finds an odd
\* number of log entries, reports nothing
detect_conflicts_remembers ==
    \E titer \in FixIter(trains_iter, DOMAIN trains) :
    \E giter \in FixIter(groups_iter, GroupKeys(trains)) :
        /\ trains_iter' = titer
        /\ groups_iter' = giter
        /\ ret' = Ret("detect_conflicts", <<>>,
                      IF ret.op = "detect_conflicts" \/ Len(event_log) % 2 = 1
                      THEN <<>>
                      ELSE DetectOn(trains, tracks, titer, giter))
        /\ UNCHANGED <<modelVars, tracks_iter, total_optimizations, request>>

\* the loops of detect_conflicts fix the orders they visit the tables in
detect_conflicts ==
    \E titer \in FixIter(trains_iter, DOMAIN trains) :
    \E giter \in FixIter(groups_iter, GroupKeys(trains)) :
        /\ trains_iter' = titer
        /\ groups_iter' = giter
        /\ ret' = Ret("detect_conflicts", <<>>, DetectOn(trains, tracks, titer, giter))
        /\ UNCHANGED <<modelVars, tracks_iter, total_optimizations, request>>

\* mutant: the projection is written to the live trains
predict_overwrites_trains(time_horizon_minutes) ==
    \E titer \in FixIter(trains_iter, DOMAIN trains) :
        /\ trains_iter' = titer
        /\ trains' = FutureTrains(trains, tracks, time_horizon_minutes)
        /\ ret' = Ret("predict_future_conflicts", <<time_horizon_minutes>>,
                      predict_future_conflicts(trains, tracks, time_horizon_minutes))
        /\ UNCHANGED <<tracks, stations, event_log, ml_model_loaded_, tracks_iter,
                       groups_iter, total_optimizations, request>>

PredictFutureConflicts(time_horizon_minutes) ==
    \E titer \in FixIter(trains_iter, DOMAIN trains) :
        /\ trains_iter' = titer
        /\ ret' = Ret("predict_future_conflicts", <<time_horizon_minutes>>,
                      predict_future_conflicts(trains, tracks, time_horizon_minutes))
        /\ UNCHANGED <<modelVars, tracks_iter, groups_iter, total_optimizations, request>>

\* ConflictResolver::resolve_by_priority on the scheduler's tables
ResolveByPriority(conflicts) ==
    \E kiter \in FixIter(tracks_iter, DOMAIN tracks) :
        /\ tracks_iter' = kiter
        /\ ret' = Ret("resolve_by_priority", <<conflicts>>,
                      resolve_by_priority(conflicts, trains, tracks, kiter))
        /\ UNCHANGED <<modelVars, trains_iter, groups_iter, total_optimizations, request>>

\* ConflictResolver::find_alternative_track on the scheduler's tables
FindAlternativeTrack(train, current_track_id) ==
    \E kiter \in FixIter(tracks_iter, DOMAIN tracks) :
        /\ tracks_iter' = kiter
        /\ ret' = Ret("find_alternative_track", <<train, current_track_id>>,
                      find_alternative_track(train, current_track_id, tracks, trains, kiter))
        /\ UNCHANGED <<modelVars, trains_iter, groups_iter, total_optimizations, request>>

\* RailwayScheduler::optimize_network: detect_conflicts, and when the list
\* is not empty resolve_conflicts, apply_adjustments and one more log entry
optimize_network ==
    \E titer \in FixIter(trains_iter, DOMAIN trains) :
    \E giter \in FixIter(groups_iter, GroupKeys(trains)) :
    \E kiter \in FixIter(tracks_iter, DOMAIN tracks) :
    \E conflicts \in {DetectOn(trains, tracks, titer, giter)} :
    \E adjustments \in {resolve_conflicts(conflicts, trains, tracks, kiter,
                                          ml_model_loaded_)} :
    \E st \in {ApplyLoop([trains |-> trains, tracks |-> tracks, log |-> event_log],
                         adjustments)} :
        /\ trains_iter' = titer
        /\ ret' = NoRet
        /\ IF conflicts = <<>>
           THEN /\ groups_iter' = giter
                /\ UNCHANGED <<modelVars, tracks_iter>>
           ELSE /\ trains' = st.trains
                /\ tracks' = st.tracks
                /\ event_log' = log_event(st.log, "optimized")
                /\ tracks_iter' = kiter
                /\ groups_iter' = IF CurrentTracks(st.trains) = CurrentTracks(trains)
                                  THEN giter ELSE <<>>
                /\ UNCHANGED <<stations, ml_model_loaded_>>
        /\ UNCHANGED <<total_optimizations, request>>

\* mutant: the conflicts are ordered by increasing severity
prioritize_conflicts_ascending(conflicts) ==
    {[i \in DOMAIN conflicts |-> conflicts[p[i]]] : p \in
        {q \in Perms(DOMAIN conflicts) :
            \A i, j \in DOMAIN q :
                i < j => conflicts[q[i]].severity <= conflicts[q[j]].severity}}

\* std::sort with the comparator a.severity > b.severity: the sort is not
\* stable, so the result is any arrangement of the elements in which no
\* element is followed by one the comparator puts before it
prioritize_conflicts(conflicts) ==
    {[i \in DOMAIN conflicts |-> conflicts[p[i]]] : p \in
        {q \in Perms(DOMAIN conflicts) :
            \A i, j \in DOMAIN q :
                i < j => ~(conflicts[q[j]].severity > conflicts[q[i]].severity)}}

\* RailwayScheduler::prioritize_conflicts, a const member
PrioritizeConflicts(conflicts) ==
    /\ \E prioritized \in prioritize_conflicts(conflicts) :
           ret' = Ret("prioritize_conflicts", <<conflicts>>, prioritized)
    /\ UNCHANGED <<modelVars, iterVars, total_optimizations, request>>

\* ConflictResolver::is_near_station, a static function of its arguments
IsNearStation(train, track, max_distance_km) ==
    /\ ret' = Ret("is_near_station", <<train, track, max_distance_km>>,
                  is_near_station(train, track, max_distance_km))
    /\ UNCHANGED <<modelVars, iterVars, total_optimizations, request>>

\* ConflictResolver::resolve_single_track_conflicts on the scheduler's
\* tables; conflicts_by_track is a local table, visited in any order
ResolveSingleTrackConflicts(conflicts) ==
    \E kiter \in FixIter(tracks_iter, DOMAIN tracks) :
    \E citer \in Perms({conflicts[i].track_id : i \in DOMAIN conflicts}) :
        /\ tracks_iter' = kiter
        /\ ret' = Ret("resolve_single_track_conflicts", <<conflicts>>,
                      resolve_single_track_conflicts(conflicts, trains, tracks,
                                                     kiter, citer))
        /\ UNCHANGED <<modelVars, trains_iter, groups_iter, total_optimizations, request>>

ResolveConflicts(conflicts) ==
    \E kiter \in FixIter(tracks_iter, DOMAIN tracks) :
        /\ tracks_iter' = kiter
        /\ ret' = Ret("resolve_conflicts", <<conflicts>>,
                      resolve_conflicts(conflicts, trains, tracks, kiter,
                                        ml_model_loaded_))
        /\ UNCHANGED <<modelVars, trains_iter, groups_iter, total_optimizations, request>>

\* mutant: only a conflict that names the pair in the order given counts
are_trains_in_conflict_one_way(train1_id, train2_id) ==
    \E titer \in FixIter(trains_iter, DOMAIN trains) :
    \E giter \in FixIter(groups_iter, GroupKeys(trains)) :
        LET conflicts == DetectOn(trains, tracks, titer, giter)
        IN  /\ trains_iter' = titer
            /\ groups_iter' = giter
            /\ ret' = Ret("are_trains_in_conflict", <<train1_id, train2_id>>,
                          \E i \in DOMAIN conflicts :
                              /\ conflicts[i].train1_id = train1_id
                              /\ conflicts[i].train2_id = train2_id)
            /\ UNCHANGED <<modelVars, tracks_iter, total_optimizations, request>>

\* are_trains_in_conflict: some detected conflict names the pair, in either order
are_trains_in_conflict(train1_id, train2_id) ==
    \E titer \in FixIter(trains_iter, DOMAIN trains) :
    \E giter \in FixIter(groups_iter, GroupKeys(trains)) :
        LET conflicts == DetectOn(trains, tracks, titer, giter)
        IN  /\ trains_iter' = titer
            /\ groups_iter' = giter
            /\ ret' = Ret("are_trains_in_conflict", <<train1_id, train2_id>>,
                          \E i \in DOMAIN conflicts :
                              \/ /\ conflicts[i].train1_id = train1_id
                                 /\ conflicts[i].train2_id = train2_id
                              \/ /\ conflicts[i].train1_id = train2_id
                                 /\ conflicts[i].train2_id = train1_id)
            /\ UNCHANGED <<modelVars, tracks_iter, total_optimizations, request>>

\* get_network_state: copies of the trains and tracks in the order the tables
\* hand them out; the stations as a set, their order being of no use to any
\* reader here; the timestamp is left out
get_network_state ==
    \E titer \in FixIter(trains_iter, DOMAIN trains) :
    \E kiter \in FixIter(tracks_iter, DOMAIN tracks) :
        /\ trains_iter' = titer
        /\ tracks_iter' = kiter
        /\ groups_iter' = GroupsIterAfter(trains, titer)
        /\ ret' = Ret("get_network_state", <<>>,
                      [trains |-> [i \in DOMAIN titer |-> trains[titer[i]]],
                       tracks |-> [i \in DOMAIN kiter |-> tracks[kiter[i]]],
                       stations |-> {stations[id] : id \in DOMAIN stations}])
        /\ UNCHANGED <<modelVars, total_optimizations, request>>

\* mutant: the delayed trains are those with delay_minutes above 0
get_statistics_by_delay_minutes ==
    \E titer \in FixIter(trains_iter, DOMAIN trains) :
    \E giter \in FixIter(groups_iter, GroupKeys(trains)) :
        LET total_trains == Cardinality(DOMAIN trains)
            delayed_trains ==
                Cardinality({id \in DOMAIN trains : trains[id].delay_minutes > 0})
        IN  /\ trains_iter' = titer
            /\ groups_iter' = giter
            /\ ret' = Ret("get_statistics", <<>>,
                          [total_trains |-> total_trains,
                           delayed_trains |-> delayed_trains,
                           average_delay_minutes |-> Quot(0, 1),
                           active_conflicts |-> Len(DetectOn(trains, tracks, titer, giter)),
                           network_efficiency |->
                               IF total_trains > 0
                               THEN Quot(total_trains - delayed_trains, total_trains)
                               ELSE Quot(1, 1)])
            /\ UNCHANGED <<modelVars, tracks_iter, total_optimizations, request>>

get_statistics ==
    \E titer \in FixIter(trains_iter, DOMAIN trains) :
    \E giter \in FixIter(groups_iter, GroupKeys(trains)) :
        LET total_trains == Cardinality(DOMAIN trains)
            delayed_trains == Cardinality({id \in DOMAIN trains : trains[id].is_delayed})
            delay_sum == SumSeq([i \in DOMAIN titer |->
                                    IF trains[titer[i]].is_delayed
                                    THEN trains[titer[i]].delay_minutes ELSE 0])
        IN  /\ trains_iter' = titer
            /\ groups_iter' = giter
            /\ ret' = Ret("get_statistics", <<>>,
                          [total_trains |-> total_trains,
                           delayed_trains |-> delayed_trains,
                           average_delay_minutes |->
                               IF delayed_trains > 0 THEN Quot(delay_sum, delayed_trains)
                               ELSE Quot(0, 1),
                           active_conflicts |-> Len(DetectOn(trains, tracks, titer, giter)),
                           network_efficiency |->
                               IF total_trains > 0
                               THEN Quot(total_trains - delayed_trains, total_trains)
                               ELSE Quot(1, 1)])
            /\ UNCHANGED <<modelVars, tracks_iter, total_optimizations, request>>

\* mutant: the stub reports the model as loaded
load_ml_model_marks_loaded(model_path) ==
    /\ event_log' = log_event(event_log, "ML model loading from: " \o model_path)
    /\ ml_model_loaded_' = TRUE
    /\ ret' = Ret("load_ml_model", <<model_path>>, TRUE)
    /\ UNCHANGED <<trains, tracks, stations, iterVars, total_optimizations, request>>

load_ml_model(model_path) ==
    /\ event_log' = log_event(event_log, "ML model loading from: " \o model_path)
    /\ ml_model_loaded_' = FALSE
    /\ ret' = Ret("load_ml_model", <<model_path>>, FALSE)
    /\ UNCHANGED <<trains, tracks, stations, iterVars, total_optimizations, request>>

(* Operations of RailwaySchedulerAPI *)

ApiDetectConflicts(trainList) ==
    /\ ret' = Ret("api.detect_conflicts", <<trainList>>, api_detect_conflicts(trainList))
    /\ UNCHANGED <<modelVars, iterVars, total_optimizations, request>>

ApiOptimize(trainList) ==
    /\ total_optimizations < MaxOptimizations
    /\ total_optimizations' = total_optimizations + 1
    /\ ret' = Ret("api.optimize", <<trainList>>, api_optimize(trainList))
    /\ UNCHANGED <<modelVars, iterVars, request>>

-----------------------------------------------------------------------------
(* Inputs *)

Track(id, length_km, is_single_track, capacity, station_ids) ==
    [id |-> id, length_km |-> length_km, is_single_track |-> is_single_track,
     capacity |-> capacity, station_ids |-> station_ids, active_train_ids |-> <<>>]

Station(id) == [id |-> id, num_platforms |-> 2]

Train(id, current_track, position_km, velocity_kmh, destination_station, priority) ==
    [id |-> id, current_track |-> current_track, position_km |-> position_km,
     velocity_kmh |-> velocity_kmh, scheduled_arrival_minutes |-> 0,
     destination_station |-> destination_station, priority |-> priority,
     is_delayed |-> FALSE, delay_minutes |-> 0]

TrainIds == 1..MaxTrains
\* an id no train is ever given, and a track id no network ever holds
UnknownTrainIds == {MaxTrains + 1}
UnknownTrackIds == {9}

StationList == <<Station(0), Station(1), Station(2)>>

\* the network of the README's complete example, the same with track 1 left
\* out, and a list that names track 0 twice
ReadmeTracks == <<Track(0, 50, TRUE, 1, <<0, 1>>), Track(1, 30, FALSE, 2, <<1, 2>>)>>
Networks ==
    { ReadmeTracks,
      <<Track(0, 50, TRUE, 1, <<0, 1>>)>>,
      <<Track(0, 50, TRUE, 1, <<0, 1>>), Track(0, 30, FALSE, 2, <<1, 2>>)>> }

ModelTrainInputs ==
    {Train(id, k, 5, 100, 1, 5) : id \in TrainIds, k \in {0, 1}}

AdjustmentInputs ==
    {[train_id |-> id, time_adjustment_minutes |-> m, new_track_id |-> k,
      new_platform |-> NoPlatform, reason |-> "input", confidence |-> 50] :
        id \in TrainIds \cup UnknownTrainIds, m \in {-30, 0, 5},
        k \in {NoTrack, 0, 1} \cup UnknownTrackIds}

SeqsUpTo(S, n) == UNION {[1..k -> S] : k \in 0..n}

-----------------------------------------------------------------------------
(* Spec: the network model under its mutating operations *)

Init == Constructed /\ request = <<>>

CanLog == Len(event_log) < MaxLog

InitializeNetwork == CanLog /\ \E net \in Networks : initialize_network(net, StationList)
AddTrain == CanLog /\ \E train \in ModelTrainInputs : add_train(train)
RemoveTrain == CanLog /\ \E id \in TrainIds \cup UnknownTrainIds : remove_train(id)
UpdateTrainState ==
    \E id \in TrainIds \cup UnknownTrainIds, p \in {5, 45}, d \in BOOLEAN :
        update_train_state(id, p, 100, d)
ApplyAdjustments ==
    CanLog /\ \E adjustments \in SeqsUpTo(AdjustmentInputs, MaxAdjustments) :
                 apply_adjustments(adjustments)

Next ==
    \/ InitializeNetwork
    \/ AddTrain
    \/ RemoveTrain
    \/ UpdateTrainState
    \/ ApplyAdjustments

Spec == Init /\ [][Next]_vars

-----------------------------------------------------------------------------
(* The state after initialize_network(trackList, StationList) and one
   add_train per train of trainSet, in the order of their ids *)

RECURSIVE Repeat(_, _)
Repeat(x, n) == IF n = 0 THEN <<>> ELSE <<x>> \o Repeat(x, n - 1)

Populated(trackList, trs) ==
    /\ trains = trs
    /\ tracks = [k \in DOMAIN TableOf(trackList) |->
                    [TableOf(trackList)[k] EXCEPT !.active_train_ids =
                        SelectSeq(SortedIds(DOMAIN trs),
                                  LAMBDA id : trs[id].current_track = k)]]
    /\ stations = TableOf(StationList)
    /\ event_log = <<"initialized", "network">> \o Repeat("added", Cardinality(DOMAIN trs))
    /\ ml_model_loaded_ = FALSE
    /\ trains_iter = <<>>
    /\ tracks_iter = <<>>
    /\ groups_iter = <<>>
    /\ total_optimizations = 0
    /\ ret = NoRet

-----------------------------------------------------------------------------
(* SpecDetect: detect_conflicts on populated networks *)

\* track 0 is a single track of 50 km, track 1 a double track of 30 km
DetectNetworks ==
    {<<Track(0, 50, TRUE, c[1], <<0, 1>>), Track(1, 30, FALSE, c[2], <<1, 2>>)>> :
        c \in {<<1, 2>>, <<2, 1>>, <<0, 3>>}}

\* <<current_track, position_km, velocity_kmh>>
DetectProfiles ==
    << <<0, 5, 100>>, <<0, 45, 80>>,      \* the README's pair: 40 km apart
       <<0, 20, 100>>, <<0, 30, 80>>,     \* opposite halves, 10 km apart
       <<0, 35, 80>>,                     \* 15 km from the train at 20 km
       <<0, 20, 0>>, <<0, 30, 0>>,        \* standing trains
       <<1, 10, 80>>, <<1, 12, 80>>, <<1, 11, 0>>,
       <<9, 5, 100>> >>                   \* on a track the network does not hold

DetectTrain(id, p) == Train(id, p[1], p[2], p[3], 1, 5)

\* The detector never compares train ids, so a state is one of these up to
\* a renaming of the trains: ids 1..k, numbered in the order of their
\* profiles.  Every order in which the tables can be visited is kept.
DetectTrainTables ==
    UNION {{[id \in 1..k |-> DetectTrain(id, DetectProfiles[f[id]])] :
               f \in {g \in [1..k -> DOMAIN DetectProfiles] :
                         \A i \in 1..k : \A j \in 1..k : i <= j => g[i] <= g[j]}} :
           k \in 0..MaxTrains}

InitDetect ==
    /\ \E net \in DetectNetworks, trs \in DetectTrainTables : Populated(net, trs)
    /\ request = <<>>

NextDetect == detect_conflicts

SpecDetect == InitDetect /\ [][NextDetect]_vars

-----------------------------------------------------------------------------
(* SpecPredict: predict_future_conflicts on the same populated networks.
   The horizons are multiples of 3 minutes and the velocities multiples of
   20 km/h, so velocity_kmh / 60 * horizon is a whole number of km *)

Horizons == {0, 3, 6}

NextPredict == \E h \in Horizons : PredictFutureConflicts(h)

SpecPredict == InitDetect /\ [][NextPredict]_vars

-----------------------------------------------------------------------------
(* SpecNetwork: the network model under the four operations that build and
   maintain it *)

NextNetwork ==
    \/ InitializeNetwork
    \/ AddTrain
    \/ RemoveTrain
    \/ UpdateTrainState

SpecNetwork == Init /\ [][NextNetwork]_vars

-----------------------------------------------------------------------------
(* Consistency of the active lists with current_track *)

NoDuplicates(s) == \A i \in DOMAIN s : \A j \in DOMAIN s : s[i] = s[j] => i = j

I1 ==
    \A k \in DOMAIN tracks :
        /\ Range(tracks[k].active_train_ids) =
               {id \in DOMAIN trains : trains[id].current_track = k}
        /\ NoDuplicates(tracks[k].active_train_ids)

\* C1: in every state reachable by initialize_network, add_train,
\* remove_train and update_train_state, each track's active_train_ids holds,
\* exactly once each, precisely the ids of the trains whose current_track is
\* that track.
C1_ActiveListsConsistent == I1

EveryTrainListed ==
    \A id \in DOMAIN trains :
        /\ trains[id].current_track \in DOMAIN tracks
        /\ id \in Range(tracks[trains[id].current_track].active_train_ids)

NoStrangerListed ==
    \A k \in DOMAIN tracks :
        \A id \in Range(tracks[k].active_train_ids) \cap DOMAIN trains :
            trains[id].current_track = k

\* C2: after an apply_adjustments call made on a state that satisfies I1
\* (and in which every train already stands on a track of the model), every
\* train's current_track is a track of the model that lists the train, and
\* no track lists a train whose current_track differs.
C2_ApplyKeepsTrainsListed ==
    [][(I1 /\ EveryTrainListed /\ ApplyAdjustments)
           => (EveryTrainListed /\ NoStrangerListed)']_vars

-----------------------------------------------------------------------------
(* What detect_conflicts reported, read from its return value *)

Detected == ret.op = "detect_conflicts"

\* the reported conflicts that name exactly the pair a, b
PairReports(a, b) ==
    {i \in DOMAIN ret.value :
        {ret.value[i].train1_id, ret.value[i].train2_id} = {a, b}}

HeadOnReports(a, b, k) ==
    {i \in PairReports(a, b) :
        /\ ret.value[i].conflict_type = "head_on"
        /\ ret.value[i].track_id = k
        /\ ret.value[i].severity = 10}

\* two different trains of the model that stand on the single track k
OnSingleTrack(a, b, k) ==
    /\ a # b
    /\ k \in DOMAIN tracks
    /\ tracks[k].is_single_track
    /\ trains[a].current_track = k
    /\ trains[b].current_track = k

OppositeHalves(a, b, k) ==
    (2 * trains[a].position_km < tracks[k].length_km)
        # (2 * trains[b].position_km < tracks[k].length_km)

\* 0 < |p1 - p2| / (v1 + v2) * 60 < 5, the quotient being infinite when
\* v1 + v2 < 0.1
MeetsWithinWindow(a, b) ==
    LET d == Abs(trains[a].position_km - trains[b].position_km)
        v == trains[a].velocity_kmh + trains[b].velocity_kmh
    IN  /\ 10 * v >= 1
        /\ 0 < 60 * d
        /\ 60 * d < 5 * v

\* C4: for two trains on the same single track, detect_conflicts reports a
\* head_on conflict of severity 10 for the pair if and only if the trains
\* are in opposite halves and 0 < meeting_time < 5 minutes; two trains in
\* the same half produce no pairwise conflict at all.
C4_HeadOnIffOppositeAndSoon ==
    Detected =>
        \A a \in DOMAIN trains : \A b \in DOMAIN trains : \A k \in DOMAIN tracks :
            OnSingleTrack(a, b, k) =>
                /\ (HeadOnReports(a, b, k) # {})
                       <=> (OppositeHalves(a, b, k) /\ MeetsWithinWindow(a, b))
                /\ ~OppositeHalves(a, b, k) => PairReports(a, b) = {}

\* a head-on pair is reported while two other trains of the track share a
\* point of one half and go unreported
C4_Witness ==
    /\ Detected
    /\ \E a \in DOMAIN trains : \E b \in DOMAIN trains : \E k \in DOMAIN tracks :
           /\ OnSingleTrack(a, b, k)
           /\ HeadOnReports(a, b, k) # {}
           /\ \E c \in DOMAIN trains :
                  /\ OnSingleTrack(a, c, k)
                  /\ trains[a].position_km = trains[c].position_km
                  /\ PairReports(a, c) = {}

HeadOnCount ==
    Cardinality({i \in DOMAIN ret.value : ret.value[i].conflict_type = "head_on"})

\* exactly two trains, both on the 50 km single track 0, at p1 km with v1
\* km/h and at p2 km with v2 km/h
TwoTrainsOnSingleTrack(p1, v1, p2, v2) ==
    /\ 0 \in DOMAIN tracks
    /\ tracks[0].is_single_track
    /\ tracks[0].length_km = 50
    /\ Cardinality(DOMAIN trains) = 2
    /\ \E a \in DOMAIN trains : \E b \in DOMAIN trains :
           /\ a # b
           /\ trains[a].current_track = 0 /\ trains[b].current_track = 0
           /\ trains[a].position_km = p1 /\ trains[a].velocity_kmh = v1
           /\ trains[b].position_km = p2 /\ trains[b].velocity_kmh = v2

Scenario1 == Detected /\ TwoTrainsOnSingleTrack(5, 100, 45, 80)

ExactlyOneFiniteHeadOn ==
    /\ HeadOnCount = 1
    /\ \A i \in DOMAIN ret.value :
           ret.value[i].conflict_type = "head_on"
               => /\ ret.value[i].severity = 10
                  /\ IsFinite(ret.value[i].estimated_collision_time_minutes)

\* C5 as the spec states it: in scenario 1 detect_conflicts reports exactly
\* one head_on conflict, of severity 10 and with a finite estimated time.
C5_Scenario1OneHeadOn == Scenario1 => ExactlyOneFiniteHeadOn

\* C5, amended: in scenario 1 (5 km and 45 km, 100 and 80 km/h: 13.3 minutes
\* to meet) detect_conflicts reports no head_on conflict and no conflict for
\* the pair; with the same velocities at 20 km and 30 km (3.3 minutes to
\* meet) it reports exactly one head_on conflict, of severity 10 and with a
\* finite estimated time.
C5_Scenario1NoHeadOn ==
    /\ Scenario1 =>
           /\ HeadOnCount = 0
           /\ \A i \in DOMAIN ret.value : ret.value[i].train2_id = NoTrain
    /\ (Detected /\ TwoTrainsOnSingleTrack(20, 100, 30, 80)) => ExactlyOneFiniteHeadOn

C5_Witness == Scenario1

CapacityReports(k) ==
    {i \in DOMAIN ret.value :
        /\ ret.value[i].conflict_type = "capacity_exceeded"
        /\ ret.value[i].track_id = k}

Assigned(k) == {id \in DOMAIN trains : trains[id].current_track = k}

\* C6: for every track with n trains assigned and capacity c,
\* detect_conflicts emits exactly max(0, n - c) capacity_exceeded conflicts
\* for that track, each of severity 7, without a second train and with
\* estimated time 0, whatever pairwise conflicts the track has.
C6_OneCapacityConflictPerExcessTrain ==
    Detected =>
        \A k \in DOMAIN tracks :
            LET n == Cardinality(Assigned(k))
                c == tracks[k].capacity
            IN  /\ Cardinality(CapacityReports(k)) = (IF n > c THEN n - c ELSE 0)
                /\ \A i \in CapacityReports(k) :
                       /\ ret.value[i].severity = 7
                       /\ ret.value[i].train2_id = -1
                       /\ ret.value[i].estimated_collision_time_minutes = <<0, 1>>
                       /\ ret.value[i].train1_id \in Assigned(k)

\* scenario 2: a double track of capacity 2 with 3 trains, two of them in
\* an overtaking conflict, yields exactly one capacity_exceeded conflict
C6_Witness ==
    /\ Detected
    /\ \E k \in DOMAIN tracks :
           /\ ~tracks[k].is_single_track
           /\ tracks[k].capacity = 2
           /\ Cardinality(Assigned(k)) = 3
           /\ Cardinality(CapacityReports(k)) = 1
           /\ \E i \in DOMAIN ret.value :
                  ret.value[i].track_id = k /\ ret.value[i].conflict_type = "overtaking"

-----------------------------------------------------------------------------
\* C7: predict_future_conflicts(h) returns exactly the conflicts that the
\* rules of detect_conflicts yield on the snapshot in which every train is
\* advanced by velocity_kmh / 60 * h and clamped to its track's length; with
\* h = 0 it returns what detect_conflicts returns.
C7_PredictDetectsOnProjection ==
    ret.op = "predict_future_conflicts" =>
        \E giter \in Perms(GroupKeys(trains)) :
            ret.value = DetectOn(FutureTrains(trains, tracks, ret.args[1]),
                                 tracks, trains_iter, giter)

-----------------------------------------------------------------------------
(* SpecApi: the public API, called with lists of trains *)

ApiTrainInputs ==
    {[Train(id, k, p, 80, 1, pr) EXCEPT !.delay_minutes = dl] :
        id \in {1, 2}, k \in {0, 1}, p \in {0, 5, 10}, pr \in {5, 9}, dl \in {0, 20}}

\* the caller holds one list of trains and calls the API with it
InitApi ==
    /\ Constructed
    /\ request \in SeqsUpTo(ApiTrainInputs, MaxApiTrains)

NextApi ==
    \/ ApiDetectConflicts(request)
    \/ ApiOptimize(request)

SpecApi == InitApi /\ [][NextApi]_vars

\* the input trains once the resolutions are carried out: a resolution
\* moves its train to new_track when it names one, and retimes it
ApiAfter(trainList, resolutions) ==
    [i \in DOMAIN trainList |->
        LET moves == {j \in DOMAIN resolutions :
                         /\ resolutions[j].train_id = trainList[i].id
                         /\ resolutions[j].new_track >= 0}
        IN  IF moves = {} THEN trainList[i]
            ELSE [trainList[i] EXCEPT !.current_track =
                     resolutions[CHOOSE j \in moves : \A m \in moves : m <= j].new_track]]

\* C3: the remaining_conflicts that optimize returns contain every conflict
\* still detected for the input trains after the returned resolutions, and
\* are empty only when none remains.
C3_RemainingConflictsSurfaced ==
    ret.op = "api.optimize" =>
        LET still == api_detect_conflicts(ApiAfter(ret.args[1], ret.value.resolutions))
            remaining == ret.value.remaining_conflicts
        IN  /\ \A i \in DOMAIN still : \E j \in DOMAIN remaining :
                   /\ remaining[j].train1_id = still[i].train1_id
                   /\ remaining[j].train2_id = still[i].train2_id
                   /\ remaining[j].track_id = still[i].track_id
            /\ remaining = <<>> => still = <<>>

-----------------------------------------------------------------------------
(* SpecResolve: resolve_by_priority, called with a list of conflicts on a
   populated network.  Track 0 is a single track of 120 km (stations at 0,
   50, 100 and 120 km), tracks 1 and 2 are double tracks of 30 km between
   stations 1 and 2; track 1 has capacity 1, track 2 capacity 2 *)

ResolveNetwork ==
    <<Track(0, 120, TRUE, 2, <<0, 1>>),
      Track(1, 30, FALSE, 1, <<1, 2>>),
      Track(2, 30, FALSE, 2, <<1, 2>>)>>

\* train 1 stands 5 km (near) or 6 km (not near) from the start of its track
ResolveTrain1 ==
    {Train(1, k, p, 80, d, pr) : k \in {0, 1}, p \in {5, 6}, d \in {0, 1}, pr \in {5, 9}}

\* train 2 stands near a station: the one at 50 km of track 0, or the start
\* of track 1
ResolveTrain2 ==
    {Train(2, 0, 55, 80, 1, pr) : pr \in {5, 9}}
        \cup {Train(2, 1, 5, 80, 1, pr) : pr \in {5, 9}}

\* the other trains, when present, occupy track 1
ResolveTrainTables ==
    {[id \in {1, 2} \cup others |->
         IF id = 1 THEN t1 ELSE IF id = 2 THEN t2 ELSE Train(id, 1, 15, 80, 2, 5)] :
        t1 \in ResolveTrain1, t2 \in ResolveTrain2, others \in SUBSET (3..MaxTrains)}

Conflict(train1_id, train2_id, track_id, conflict_type, severity) ==
    [train1_id |-> train1_id, train2_id |-> train2_id, track_id |-> track_id,
     conflict_type |-> conflict_type,
     estimated_collision_time_minutes |-> Quot(3, 1),
     severity |-> severity]

\* conflicts between trains 1 and 2 in both orders on either track, a
\* capacity conflict, and a conflict that names train 3
ResolveConflictInputs ==
    { Conflict(1, 2, 0, "head_on", HeadOnSeverity),
      Conflict(2, 1, 0, "head_on", HeadOnSeverity),
      Conflict(1, 2, 1, "overtaking", OvertakingSeverity),
      Conflict(2, 1, 1, "overtaking", OvertakingSeverity),
      CapacityConflict(1, 0),
      Conflict(3, 1, 0, "head_on", HeadOnSeverity) }

InitResolve ==
    /\ \E trs \in ResolveTrainTables : Populated(ResolveNetwork, trs)
    /\ request \in SeqsUpTo(ResolveConflictInputs, MaxConflicts)

NextResolve == ResolveByPriority(request)

SpecResolve == InitResolve /\ [][NextResolve]_vars

-----------------------------------------------------------------------------
(* What resolve_by_priority returned, read against the conflicts it was given *)

Resolved == ret.op = "resolve_by_priority"

\* the conflicts of the list that have a second train, in the list's order
TwoTrainConflicts(conflicts) == SelectSeq(conflicts, LAMBDA c : c.train2_id # -1)

\* every two-train conflict names two trains of the model
NamesTrains(conflicts) ==
    \A i \in DOMAIN conflicts :
        conflicts[i].train2_id # -1 =>
            /\ conflicts[i].train1_id \in DOMAIN trains
            /\ conflicts[i].train2_id \in DOMAIN trains

IsDelay(adj, c) ==
    /\ adj.time_adjustment_minutes = 50 * c.severity
    /\ adj.new_track_id = -1
    /\ adj.confidence = 75

IsSwitch(adj) ==
    /\ adj.time_adjustment_minutes = 5
    /\ adj.new_track_id >= 0
    /\ adj.confidence = 90

\* C8: resolve_by_priority returns exactly one adjustment per conflict with
\* two train ids, in the order of the input, and none for a
\* capacity_exceeded conflict: the k-th adjustment answers the k-th
\* two-train conflict.
C8_OneAdjustmentPerTwoTrainConflict ==
    (Resolved /\ NamesTrains(ret.args[1])) =>
        LET two == TwoTrainConflicts(ret.args[1])
        IN  /\ Len(ret.value) = Len(two)
            /\ \A i \in DOMAIN two :
                   /\ ret.value[i].train_id \in {two[i].train1_id, two[i].train2_id}
                   /\ IsSwitch(ret.value[i]) \/ IsDelay(ret.value[i], two[i])

\* a capacity conflict between two two-train conflicts of different severity
C8_Witness ==
    /\ Resolved
    /\ NamesTrains(ret.args[1])
    /\ Len(ret.args[1]) = 2
    /\ ret.args[1][1].train2_id = -1
    /\ ret.args[1][2].train2_id # -1
    /\ Len(ret.value) = 1

PriorityOf(id) == trains[id].priority

\* C9: every adjustment of resolve_by_priority names the train of its
\* conflict with the strictly lower priority, never the one with the
\* strictly higher priority, and names train2_id when the priorities are
\* equal.
C9_LowerPriorityTrainAdjusted ==
    (Resolved /\ NamesTrains(ret.args[1])) =>
        LET two == TwoTrainConflicts(ret.args[1])
        IN  \A i \in DOMAIN two \cap DOMAIN ret.value :
                LET p1 == PriorityOf(two[i].train1_id)
                    p2 == PriorityOf(two[i].train2_id)
                IN  /\ p1 < p2 => ret.value[i].train_id = two[i].train1_id
                    /\ p2 < p1 => ret.value[i].train_id = two[i].train2_id
                    /\ p1 = p2 => ret.value[i].train_id = two[i].train2_id

\* one list with a conflict whose first train has the lower priority and a
\* conflict between two trains of equal priority
C9_Witness ==
    /\ Resolved
    /\ NamesTrains(ret.args[1])
    /\ LET two == TwoTrainConflicts(ret.args[1])
       IN  /\ \E i \in DOMAIN two :
                  /\ PriorityOf(two[i].train1_id) < PriorityOf(two[i].train2_id)
                  /\ ret.value[i].train_id = two[i].train1_id
           /\ \E i \in DOMAIN two :
                  /\ PriorityOf(two[i].train1_id) = PriorityOf(two[i].train2_id)
                  /\ two[i].train1_id # two[i].train2_id
                  /\ ret.value[i].train_id = two[i].train2_id

\* the train of the conflict that the resolver adjusts
LowerOf(c) ==
    IF PriorityOf(c.train1_id) < PriorityOf(c.train2_id)
    THEN trains[c.train1_id] ELSE trains[c.train2_id]

\* k is a valid alternative to the conflicted track kc for the train
AlternativeValid(train, kc, k) ==
    /\ k \in DOMAIN tracks
    /\ k # kc
    /\ \E n \in DOMAIN tracks[k].station_ids :
           tracks[k].station_ids[n] = train.destination_station
    /\ Cardinality(Assigned(k)) < tracks[k].capacity
    /\ ~(tracks[k].is_single_track /\ ~tracks[kc].is_single_track)

AlternativeExists(c) ==
    \E k \in DOMAIN tracks : AlternativeValid(LowerOf(c), c.track_id, k)

BothOnConflictTrack(c) ==
    /\ trains[c.train1_id].current_track = c.track_id
    /\ trains[c.train2_id].current_track = c.track_id

\* within 5 km of the start of the track, of its end, or of a 50 km mark
\* inside it
WithinFiveOfStation(train, k) ==
    \E station_pos \in {0, tracks[k].length_km}
                         \cup {50 * n : n \in {m \in 1..10 : 50 * m < tracks[k].length_km}} :
        Abs(train.position_km - station_pos) <= 5

\* C10 as the spec states it: whenever a valid alternative track exists for
\* the lower-priority train of a two-train conflict, resolve_by_priority
\* emits the track switch and never the delay.
C10_SwitchWheneverAlternativeExists ==
    (Resolved /\ NamesTrains(ret.args[1])) =>
        LET two == TwoTrainConflicts(ret.args[1])
        IN  \A i \in DOMAIN two \cap DOMAIN ret.value :
                AlternativeExists(two[i]) => IsSwitch(ret.value[i])

\* C10, amended: when a valid alternative track exists, resolve_by_priority
\* emits the switch to a valid alternative if both trains stand on the
\* conflict's track and the lower-priority train is within 5 km of a station
\* of it, and emits the delay if either condition fails.
C10_SwitchAtStationOnly ==
    (Resolved /\ NamesTrains(ret.args[1])) =>
        LET two == TwoTrainConflicts(ret.args[1])
        IN  \A i \in DOMAIN two \cap DOMAIN ret.value :
                AlternativeExists(two[i]) =>
                    IF /\ BothOnConflictTrack(two[i])
                       /\ WithinFiveOfStation(LowerOf(two[i]), two[i].track_id)
                    THEN /\ IsSwitch(ret.value[i])
                         /\ AlternativeValid(LowerOf(two[i]), two[i].track_id,
                                             ret.value[i].new_track_id)
                    ELSE IsDelay(ret.value[i], two[i])

\* a switch is emitted for a train at a station while the alternative exists
C10_Witness ==
    /\ Resolved
    /\ NamesTrains(ret.args[1])
    /\ LET two == TwoTrainConflicts(ret.args[1])
       IN  \E i \in DOMAIN two :
               /\ AlternativeExists(two[i])
               /\ BothOnConflictTrack(two[i])
               /\ WithinFiveOfStation(LowerOf(two[i]), two[i].track_id)
               /\ IsSwitch(ret.value[i])

-----------------------------------------------------------------------------
\* the switch is attempted for this conflict
SwitchAttempted(c) ==
    /\ BothOnConflictTrack(c)
    /\ c.track_id \in DOMAIN tracks
    /\ WithinFiveOfStation(LowerOf(c), c.track_id)

FoundTrack(c) ==
    find_alternative_track(LowerOf(c), c.track_id, tracks, trains, tracks_iter)

\* C11: for a two-train conflict resolve_by_priority emits the switch (0.5
\* min, the track find_alternative_track returns, confidence 0.90) exactly
\* when both trains stand on the conflict's track, the lower-priority train
\* is within 5 km of a station of it and find_alternative_track returns a
\* track; otherwise it emits 5.0 * severity (50 for head_on, 25 for
\* overtaking), no track change, confidence 0.75.
C11_SwitchExactlyWhenFound ==
    (Resolved /\ NamesTrains(ret.args[1])) =>
        LET two == TwoTrainConflicts(ret.args[1])
        IN  \A i \in DOMAIN two \cap DOMAIN ret.value :
                IF SwitchAttempted(two[i]) /\ FoundTrack(two[i]) # -1
                THEN /\ ret.value[i].time_adjustment_minutes = 5
                     /\ ret.value[i].new_track_id = FoundTrack(two[i])
                     /\ ret.value[i].confidence = 90
                ELSE /\ ret.value[i].time_adjustment_minutes =
                            (IF two[i].conflict_type = "head_on" THEN 500 ELSE 250)
                     /\ ret.value[i].time_adjustment_minutes = 50 * two[i].severity
                     /\ ret.value[i].new_track_id = -1
                     /\ ret.value[i].confidence = 75

\* one list answered by a switch and by a delay, and a delay given although
\* the switch was attempted (nothing found)
C11_Witness ==
    /\ Resolved
    /\ NamesTrains(ret.args[1])
    /\ LET two == TwoTrainConflicts(ret.args[1])
       IN  /\ Len(two) = 2
           /\ Len(ret.value) = 2
           /\ \E i \in DOMAIN two : \E j \in DOMAIN two :
                  /\ ret.value[i].new_track_id >= 0
                  /\ ret.value[j].new_track_id = -1

-----------------------------------------------------------------------------
(* SpecSingle: resolve_single_track_conflicts, called with a list of
   conflicts.  Track 0 is a single track of 50 km between stations 0 and 1,
   track 1 a double track of capacity 1 between stations 1 and 2.  Trains 1,
   2 and 3 stand on track 0; a train at 25 km is more than 10 km from any
   station, a train at 10 km is not; station 0 is on no double track.  The
   trains with higher ids, when present, fill track 1 *)

SingleNetwork ==
    <<Track(0, 50, TRUE, 2, <<0, 1>>), Track(1, 30, FALSE, 1, <<1, 2>>)>>

\* <<position_km, destination_station>>
SinglePlaces == {<<25, 1>>, <<10, 1>>, <<10, 0>>}

SingleTrain(id) ==
    IF id \in {1, 2}
    THEN {Train(id, 0, pl[1], 80, pl[2], pr) : pl \in SinglePlaces, pr \in {0, 5, 9}}
    ELSE {Train(id, 0, 25, 80, 1, 5), Train(id, 0, 10, 80, 1, 5),
          Train(id, 0, 25, 80, 1, 9)}

\* train 3 may have left the network
SingleTrainTables ==
    {[id \in {1, 2} \cup third \cup others |->
         IF id = 1 THEN t1 ELSE IF id = 2 THEN t2 ELSE IF id = 3 THEN t3
         ELSE Train(id, 1, 15, 80, 2, 5)] :
        t1 \in SingleTrain(1), t2 \in SingleTrain(2), t3 \in SingleTrain(3),
        third \in {{}, {3}}, others \in SUBSET (4..(MaxTrains + 1))}

SingleConflictInputs ==
    { Conflict(1, 2, 0, "head_on", HeadOnSeverity),
      Conflict(2, 3, 0, "head_on", HeadOnSeverity),
      CapacityConflict(1, 0),
      CapacityConflict(3, 0),
      Conflict(1, 2, 1, "overtaking", OvertakingSeverity) }

InitSingle ==
    /\ \E trs \in SingleTrainTables : Populated(SingleNetwork, trs)
    /\ request \in SeqsUpTo(SingleConflictInputs, MaxConflicts)

NextSingle == ResolveSingleTrackConflicts(request)

SpecSingle == InitSingle /\ [][NextSingle]_vars

-----------------------------------------------------------------------------
(* Claims about resolve_single_track_conflicts, stated on the list it was
   called with (ret.args[1]), the list it returned (ret.value) and the
   trains and tracks, which the call leaves as they were *)

SingleResolved == ret.op = "resolve_single_track_conflicts"

\* the trains that the conflicts of the list on track k implicate
Implicated(conflicts, k) ==
    {conflicts[i].train1_id : i \in {n \in DOMAIN conflicts : conflicts[n].track_id = k}}
    \cup {conflicts[i].train2_id :
             i \in {n \in DOMAIN conflicts : /\ conflicts[n].track_id = k
                                             /\ conflicts[n].train2_id # -1}}

AdjustmentsFor(id) == SelectSeq(ret.value, LAMBDA a : a.train_id = id)

Diverted(id) ==
    \E i \in DOMAIN ret.value :
        ret.value[i].train_id = id /\ ret.value[i].new_track_id # -1

\* the implicated train with the highest priority, the lowest id among equals
TopTrain(ids) ==
    CHOOSE t \in ids :
        \A u \in ids : \/ PriorityOf(t) > PriorityOf(u)
                       \/ PriorityOf(t) = PriorityOf(u) /\ t <= u

\* k is a single track whose conflicts implicate trains of the model with
\* priorities >= 1, none of which is diverted
WaitingCase(conflicts, k) ==
    /\ k \in DOMAIN tracks
    /\ tracks[k].is_single_track
    /\ Implicated(conflicts, k) # {}
    /\ Implicated(conflicts, k) \subseteq DOMAIN trains
    /\ \A id \in Implicated(conflicts, k) : PriorityOf(id) >= 1
    /\ \A id \in Implicated(conflicts, k) : ~Diverted(id)

TopWaitsForNobody(conflicts, k) ==
    LET ids == Implicated(conflicts, k)
        n   == Cardinality(ids)
    IN  /\ AdjustmentsFor(TopTrain(ids)) = <<>>
        /\ \A id \in ids \ {TopTrain(ids)} :
               /\ Len(AdjustmentsFor(id)) = 1
               /\ AdjustmentsFor(id)[1].time_adjustment_minutes = 80 * (n - 1)
               /\ AdjustmentsFor(id)[1].new_track_id = -1
               /\ AdjustmentsFor(id)[1].confidence = 70

NoSingleTrackConflict(conflicts) ==
    \A i \in DOMAIN conflicts :
        conflicts[i].track_id \in DOMAIN tracks
            => ~tracks[conflicts[i].track_id].is_single_track

\* the trains of the model that the list implicates on single tracks
SingleTrackTrains(conflicts) ==
    UNION {Implicated(conflicts, k) \cap DOMAIN trains :
              k \in {t \in DOMAIN tracks : tracks[t].is_single_track}}

\* the train would be diverted: it is within 10 km of a station of its
\* conflict's track and a double track with room connects its destination
WouldDivert(id, k) ==
    /\ \E s \in {0, tracks[k].length_km} \cup {m \in 1..(tracks[k].length_km - 1) : m % 50 = 0} :
           (trains[id].position_km - s) <= 10 /\ (s - trains[id].position_km) <= 10
    /\ \E o \in DOMAIN tracks \ {k} :
           /\ ~tracks[o].is_single_track
           /\ \E n \in DOMAIN tracks[o].station_ids :
                  tracks[o].station_ids[n] = trains[id].destination_station
           /\ Len(tracks[o].active_train_ids) < tracks[o].capacity

\* the train would wait: another implicated train of the track has a
\* priority above 0 that is higher, or as high with a lower id
WouldWait(conflicts, id, k) ==
    \/ \A u \in Implicated(conflicts, k) \cap DOMAIN trains : PriorityOf(u) <= 0
    \/ \E u \in Implicated(conflicts, k) \cap DOMAIN trains :
           \/ PriorityOf(u) > PriorityOf(id)
           \/ PriorityOf(u) = PriorityOf(id) /\ u < id

\* Strategy B's own rules divert nobody and make nobody wait
OwnRulesProduceNothing(conflicts) ==
    \A k \in {t \in DOMAIN tracks : tracks[t].is_single_track} :
        \A id \in Implicated(conflicts, k) \cap DOMAIN trains :
            ~WouldDivert(id, k) /\ ~WouldWait(conflicts, id, k)

\* C13: whenever Strategy B's own rules produce no adjustment (no conflict on
\* a single track, or no implicated train diverted or made to wait),
\* resolve_single_track_conflicts returns exactly the list that
\* resolve_by_priority returns for the same conflicts, trains and tracks.
C13_FallsBackToPriority ==
    (SingleResolved /\ NamesTrains(ret.args[1])) =>
        /\ NoSingleTrackConflict(ret.args[1]) => OwnRulesProduceNothing(ret.args[1])
        /\ OwnRulesProduceNothing(ret.args[1]) =>
               ret.value = resolve_by_priority(ret.args[1], trains, tracks, tracks_iter)

\* the fallback answered a list that has a conflict on the single track
C13_Witness ==
    /\ SingleResolved
    /\ NamesTrains(ret.args[1])
    /\ ~NoSingleTrackConflict(ret.args[1])
    /\ OwnRulesProduceNothing(ret.args[1])
    /\ ret.value # <<>>
    /\ ret.value = resolve_by_priority(ret.args[1], trains, tracks, tracks_iter)

\* C14: given any non-empty conflict list, resolve_single_track_conflicts
\* returns at least one adjustment.
C14_NonEmptyListGetsAdjustment ==
    (SingleResolved /\ NamesTrains(ret.args[1]) /\ ret.args[1] # <<>>) =>
        Len(ret.value) >= 1

-----------------------------------------------------------------------------
(* SpecMl: load_ml_model and resolve_conflicts, in any order, on the network
   of SpecResolve *)

ModelPaths == {"model.pt"}

\* the load_ml_model calls so far, as the log shows them
Loads ==
    Len(SelectSeq(event_log,
                  LAMBDA m : m \in {"ML model loading from: " \o mp : mp \in ModelPaths}))

InitMl ==
    /\ \E trs \in ResolveTrainTables : Populated(ResolveNetwork, trs)
    /\ request \in SeqsUpTo(ResolveConflictInputs, MaxMlConflicts)

LoadMlModel == Loads < MaxLoads /\ \E model_path \in ModelPaths : load_ml_model(model_path)

NextMl == LoadMlModel \/ ResolveConflicts(request)

SpecMl == InitMl /\ [][NextMl]_vars

\* C15: in every reachable state, after any number of load_ml_model calls,
\* the model is not marked as loaded and resolve_conflicts returns exactly
\* what resolve_by_priority returns for the same conflicts on the current
\* trains and tracks.
C15_HeuristicAlwaysAnswers ==
    /\ ~ml_model_loaded_
    /\ ret.op = "resolve_conflicts" =>
           ret.value = resolve_by_priority(ret.args[1], trains, tracks, tracks_iter)

\* resolve_conflicts answered a conflict after load_ml_model was called
C15_Witness ==
    /\ Loads >= 1
    /\ ret.op = "resolve_conflicts"
    /\ NamesTrains(ret.args[1])
    /\ Len(ret.value) >= 1

-----------------------------------------------------------------------------
(* SpecApply: apply_adjustments called with a list the caller holds, between
   update_train_state and remove_train calls, on the README's network.
   Train 1 stands on track 0; train 2, when present, on track 0 or 1; the
   lists also name a train that was never added *)

Adjustment(train_id, time_adjustment_minutes, new_track_id) ==
    [train_id |-> train_id, time_adjustment_minutes |-> time_adjustment_minutes,
     new_track_id |-> new_track_id, new_platform |-> NoPlatform,
     reason |-> "input", confidence |-> 50]

ApplyTrainTables ==
    {[id \in {1} \cup second |-> Train(id, IF id = 1 THEN 0 ELSE k, 5, 100, 1, 5)] :
        second \in {{}, {2}}, k \in {0, 1}}

ApplyInputs ==
    {Adjustment(1, 5, NoTrack), Adjustment(1, -30, NoTrack), Adjustment(1, 0, 1),
     Adjustment(2, 5, 1), Adjustment(2, -30, 0)}
    \cup {Adjustment(id, 5, 1) : id \in UnknownTrainIds}
    \cup {Adjustment(id, -30, NoTrack) : id \in UnknownTrainIds}

\* the adjustments applied so far, as the log shows them
Applied == Len(SelectSeq(event_log, LAMBDA m : m = "applied"))

InitApply ==
    /\ \E trs \in ApplyTrainTables : Populated(ReadmeTracks, trs)
    /\ request \in SeqsUpTo(ApplyInputs, MaxAdjustments)

ApplyRequest == Applied < MaxApplied /\ apply_adjustments(request)

UpdateAnyTrain == \E id \in {1, 2} \cup UnknownTrainIds : update_train_state(id, 45, 100, TRUE)

RemoveAnyTrain == \E id \in {1, 2} \cup UnknownTrainIds : remove_train(id)

NextApply == ApplyRequest \/ UpdateAnyTrain \/ RemoveAnyTrain

SpecApply == InitApply /\ [][NextApply]_vars

\* what the scheduler holds besides its flags
Model == <<trains, tracks, stations, event_log>>

\* the adjustments of the list whose train is in the model
Live(adjustments) == SelectSeq(adjustments, LAMBDA a : a.train_id \in DOMAIN trains)

\* C16: update_train_state, remove_train and an adjustment handed to
\* apply_adjustments, each naming a train that is not in the model, leave
\* trains, tracks, stations and the event log as they were; the other
\* adjustments of the same list are applied as if the stale ones were not
\* there, one log entry each.
C16_UnknownTrainIsNoOp ==
    [][/\ \A id \in ({1, 2} \cup UnknownTrainIds) \ DOMAIN trains :
              /\ update_train_state(id, 45, 100, TRUE) => UNCHANGED Model
              /\ remove_train(id) => UNCHANGED Model
       /\ ApplyRequest =>
              LET st == ApplyLoop([trains |-> trains, tracks |-> tracks, log |-> event_log],
                                  Live(request))
              IN  /\ Live(request) = <<>> => UNCHANGED Model
                  /\ trains' = st.trains
                  /\ tracks' = st.tracks
                  /\ event_log' = st.log
                  /\ stations' = stations
                  /\ Len(event_log') = Len(event_log) + Len(Live(request))]_vars

\* a list that names a train never added and then train 1 was applied once
C16_Witness ==
    /\ Len(request) = 2
    /\ request[1].train_id \in UnknownTrainIds
    /\ request[2].train_id = 1
    /\ 1 \in DOMAIN trains
    /\ Applied = 1
    /\ trains[1].scheduled_arrival_minutes = request[2].time_adjustment_minutes
    /\ request[2].time_adjustment_minutes # 0

RECURSIVE MinutesFor(_, _)
MinutesFor(adjustments, id) ==
    IF adjustments = <<>> THEN 0
    ELSE (IF Head(adjustments).train_id = id
          THEN Head(adjustments).time_adjustment_minutes ELSE 0)
         + MinutesFor(Tail(adjustments), id)

RECURSIVE DelayFor(_, _)
DelayFor(adjustments, id) ==
    IF adjustments = <<>> THEN 0
    ELSE (IF Head(adjustments).train_id = id /\ Head(adjustments).time_adjustment_minutes > 0
          THEN Head(adjustments).time_adjustment_minutes ELSE 0)
         + DelayFor(Tail(adjustments), id)

\* C20: apply_adjustments adds every adjustment of a train to its
\* scheduled_arrival_minutes, adds the positive ones to delay_minutes and sets
\* is_delayed when there is a positive one; adjustments <= 0 leave
\* delay_minutes and is_delayed as they were; several adjustments of one train
\* accumulate.
C20_DelaysAccumulate ==
    [][ApplyRequest =>
          \A id \in DOMAIN trains :
              /\ trains'[id].scheduled_arrival_minutes =
                     trains[id].scheduled_arrival_minutes + MinutesFor(request, id)
              /\ trains'[id].delay_minutes =
                     trains[id].delay_minutes + DelayFor(request, id)
              /\ trains'[id].is_delayed =
                     (trains[id].is_delayed \/ DelayFor(request, id) > 0)]_vars

\* train 1 got +0.5 and -3.0 in one list: 2.5 minutes early, 0.5 of delay
C20_Witness ==
    /\ Len(request) = 2
    /\ \A i \in DOMAIN request : request[i].train_id = 1
    /\ MinutesFor(request, 1) = -25
    /\ 1 \in DOMAIN trains
    /\ Applied = 2
    /\ trains[1].scheduled_arrival_minutes = -25
    /\ trains[1].delay_minutes = 5
    /\ trains[1].is_delayed

\* the set of trains, every train's current_track and every track's active
\* list are the same after the step
TrackDataUnchanged ==
    /\ DOMAIN trains' = DOMAIN trains
    /\ \A id \in DOMAIN trains : trains'[id].current_track = trains[id].current_track
    /\ DOMAIN tracks' = DOMAIN tracks
    /\ \A k \in DOMAIN tracks : tracks'[k].active_train_ids = tracks[k].active_train_ids

\* C17: add_train with a current_track that is not in the model, and
\* apply_adjustments with a new_track_id that is not in the model, change
\* neither the set of trains nor any train's current_track nor any track's
\* active list.
C17_UnknownTrackIsNoOp ==
    [][/\ \A train \in ModelTrainInputs :
              (train.current_track \notin DOMAIN tracks /\ add_train(train))
                  => TrackDataUnchanged
       /\ \A adj \in AdjustmentInputs :
              (/\ adj.new_track_id >= 0
               /\ adj.new_track_id \notin DOMAIN tracks
               /\ apply_adjustments(<<adj>>))
                  => TrackDataUnchanged]_vars

-----------------------------------------------------------------------------
(* SpecAgain: detect_conflicts called again and again on the README's
   network, with load_ml_model calls in between: they add log entries and
   change neither trains nor tracks *)

InitAgain ==
    /\ \E trs \in DetectTrainTables : Populated(ReadmeTracks, trs)
    /\ request = <<>>

NextAgain == detect_conflicts \/ LoadMlModel

SpecAgain == InitAgain /\ [][NextAgain]_vars

-----------------------------------------------------------------------------
(* SpecCycle: the detect -> resolve -> apply cycle on the README's network,
   resolve_conflicts on what detect_conflicts returned and apply_adjustments
   on what resolve_conflicts returned, with the queries in between *)

\* <<current_track, position_km, velocity_kmh, priority>>
CycleTrainTables ==
    {[id \in {1, 2} \cup third |->
         IF id = 1 THEN Train(1, 0, p1, 100, 1, 5)
         ELSE IF id = 2 THEN Train(2, p2[1], p2[2], 80, 1, 9)
         ELSE Train(3, 1, 12, 80, 2, 5)] :
        p1 \in {5, 20}, p2 \in {<<0, 30>>, <<0, 45>>, <<1, 10>>}, third \in {{}, {3}}}

InitCycle ==
    /\ \E trs \in CycleTrainTables : Populated(ReadmeTracks, trs)
    /\ request = <<>>

DetectConflicts == detect_conflicts
PredictAhead == \E h \in Horizons : PredictFutureConflicts(h)
AreTrainsInConflict ==
    \E pair \in {<<1, 2>>, <<2, 1>>, <<1, 3>>} : are_trains_in_conflict(pair[1], pair[2])
ResolveDetected == Detected /\ ResolveConflicts(ret.value)
ApplyResolved ==
    /\ ret.op = "resolve_conflicts"
    /\ Applied < MaxApplied
    /\ apply_adjustments(ret.value)
GetStatistics == get_statistics
GetNetworkState == get_network_state

NextCycle ==
    \/ DetectConflicts
    \/ PredictAhead
    \/ AreTrainsInConflict
    \/ ResolveDetected
    \/ ApplyResolved
    \/ GetStatistics
    \/ GetNetworkState

SpecCycle == InitCycle /\ [][NextCycle]_vars

\* C19: detect_conflicts, predict_future_conflicts, are_trains_in_conflict,
\* resolve_conflicts, get_statistics and get_network_state leave trains,
\* tracks, stations and the event log as they were; in the detect -> resolve
\* -> apply cycle only apply_adjustments changes them.
C19_QueriesLeaveModelAlone ==
    [][/\ (\/ DetectConflicts
           \/ PredictAhead
           \/ AreTrainsInConflict
           \/ ResolveDetected
           \/ GetStatistics
           \/ GetNetworkState) => UNCHANGED Model
       /\ ~(UNCHANGED Model) => ApplyResolved]_vars

\* a second round of the cycle: conflicts resolved after adjustments were applied
C19_Witness ==
    /\ Applied >= 1
    /\ ret.op = "resolve_conflicts"
    /\ Len(ret.value) >= 1

-----------------------------------------------------------------------------
(* SpecFind: find_alternative_track called for a train of the model and a
   current track, on the network of SpecResolve; the current track may be one
   the network does not hold *)

InitFind ==
    /\ \E trs \in ResolveTrainTables : Populated(ResolveNetwork, trs)
    /\ request = <<>>

NextFind ==
    \E id \in DOMAIN trains, current_track_id \in {0, 1, 2} \cup UnknownTrackIds :
        FindAlternativeTrack(trains[id], current_track_id)

SpecFind == InitFind /\ [][NextFind]_vars

Found == ret.op = "find_alternative_track"

\* track k satisfies the three criteria for the train whose current track is cur
SatisfiesCriteria(train, cur, k) ==
    /\ \E n \in DOMAIN tracks[k].station_ids :
           tracks[k].station_ids[n] = train.destination_station
    /\ Cardinality({id \in DOMAIN trains : trains[id].current_track = k}) < tracks[k].capacity
    /\ (cur \in DOMAIN tracks /\ ~tracks[cur].is_single_track) => ~tracks[k].is_single_track

\* C21 as stated: find_alternative_track returns a track T only if T differs from the
\* current track, connects the train's destination, has fewer trains on it
\* than its capacity and is not a single track when the current track is a
\* double track; and it returns -1 if and only if no track other than the
\* current one satisfies the three criteria.
C21_FindsTrackIffOneQualifies ==
    Found =>
        LET train == ret.args[1]
            cur == ret.args[2]
            candidates == {k \in DOMAIN tracks \ {cur} : SatisfiesCriteria(train, cur, k)}
        IN  /\ ret.value # -1 => ret.value \in candidates
            /\ ret.value = -1 <=> candidates = {}

\* C21 amended: when the current track is a track of the model,
\* find_alternative_track returns a track T only if T differs from the
\* current track, connects the train's destination, has fewer trains on it
\* than its capacity and is not a single track when the current track is a
\* double track, and it returns -1 if and only if no other track satisfies
\* the three criteria; when the current track is not in the model it returns
\* -1 whatever the other tracks are.
C21_FindsTrackIffOneQualifiesOnKnownTrack ==
    Found =>
        IF ret.args[2] \in DOMAIN tracks
        THEN C21_FindsTrackIffOneQualifies
        ELSE ret.value = -1

\* a track was returned where two qualify
C21_Witness ==
    /\ Found
    /\ ret.args[2] \in DOMAIN tracks
    /\ ret.value # -1
    /\ Cardinality({k \in DOMAIN tracks \ {ret.args[2]} :
                       SatisfiesCriteria(ret.args[1], ret.args[2], k)}) >= 2

\* the set of pairs <<train1_id, train2_id>> that a list of conflicts names
NamedPairs(conflicts) ==
    {<<conflicts[i].train1_id, conflicts[i].train2_id>> : i \in DOMAIN conflicts}

\* C22: are_trains_in_conflict(a, b) is true exactly when detect_conflicts on
\* the current state returns a conflict that names a and b in either order,
\* and a call with the ids exchanged, made on the same state, answers the same.
C22_InConflictIffDetected ==
    [][\A a \in {1, 2, 3}, b \in {1, 2, 3} :
          are_trains_in_conflict(a, b) =>
              LET named == NamedPairs(DetectOn(trains, tracks, trains_iter', groups_iter'))
              IN  /\ ret'.value = (<<a, b>> \in named \/ <<b, a>> \in named)
                  /\ (ret.op = "are_trains_in_conflict" /\ ret.args = <<b, a>>)
                         => ret'.value = ret.value]_vars

\* trains 2 and 1, asked in this order, are in conflict
C22_Witness ==
    /\ ret.op = "are_trains_in_conflict"
    /\ ret.args = <<2, 1>>
    /\ ret.value
    /\ <<1, 2>> \in NamedPairs(DetectOn(trains, tracks, trains_iter, groups_iter))
           \/ <<2, 1>> \in NamedPairs(DetectOn(trains, tracks, trains_iter, groups_iter))

-----------------------------------------------------------------------------
(* SpecLog: a scheduler that has run for long: after the constructor and
   initialize_network, train 1 was added and removed in turn until the log
   held LogCap - LogRoom .. LogCap entries.  Then trains are added, the stub
   loader is called and two adjustments of train 1 are applied in one call *)

LongLog(n) ==
    <<"initialized", "network">>
        \o [i \in 1..(n - 2) |-> IF i % 2 = 1 THEN "added" ELSE "removed"]

InitLog ==
    \E n \in (LogCap - LogRoom)..LogCap :
        /\ event_log = LongLog(n)
        /\ trains = IF n % 2 = 1 THEN (1 :> Train(1, 0, 5, 100, 1, 5)) ELSE <<>>
        /\ tracks = [k \in DOMAIN TableOf(ReadmeTracks) |->
                        [TableOf(ReadmeTracks)[k] EXCEPT !.active_train_ids =
                            IF n % 2 = 1 /\ k = 0 THEN <<1>> ELSE <<>>]]
        /\ stations = TableOf(StationList)
        /\ ml_model_loaded_ = FALSE
        /\ trains_iter = <<>>
        /\ tracks_iter = <<>>
        /\ groups_iter = <<>>
        /\ total_optimizations = 0
        /\ request = <<Adjustment(1, 5, NoTrack), Adjustment(1, 5, NoTrack)>>
        /\ ret = NoRet

AddNewTrain ==
    \E id \in {1, 2} \ DOMAIN trains, k \in {0, 1} : add_train(Train(id, k, 5, 100, 1, 5))

ApplyTwo == 1 \in DOMAIN trains /\ ApplyRequest

NextLog == AddNewTrain \/ LoadMlModel \/ ApplyTwo

SpecLog == InitLog /\ [][NextLog]_vars

\* the step logged k events: the log is the old one followed by k entries,
\* cut at the front to 1000 entries, the old entries in their order
LoggedFifo(k) ==
    LET before == Len(event_log)
        after == Len(event_log')
        evicted == before + k - after
    IN  /\ after = (IF before + k > 1000 THEN 1000 ELSE before + k)
        /\ \A i \in 1..(after - k) : event_log'[i] = event_log[i + evicted]

\* C23: the event log never holds more than 1000 entries after an operation,
\* and an event logged while it holds 1000 evicts the oldest entry and leaves
\* the other entries in their order.
C23_LogCappedFifo ==
    [][/\ Len(event_log) <= 1000
       /\ Len(event_log') <= 1000
       /\ (AddNewTrain \/ LoadMlModel) => LoggedFifo(1)
       /\ ApplyTwo => LoggedFifo(2)]_vars

\* the log is full, the constructor's entry was evicted, the last event is
\* the latest
C23_Witness ==
    /\ Len(event_log) = 1000
    /\ event_log[1] # "initialized"
    /\ event_log[1000] = "applied"
    /\ event_log[999] = "applied"
    /\ Loads >= 1

-----------------------------------------------------------------------------
(* SpecOvertake: detect_conflicts with two or three trains on the double
   track of the README's network (30 km, capacity 2): positions on both
   sides of its middle, 0, 1, 2 and more km apart, moving and standing *)

OvertakePositions == {10, 11, 12, 14, 15, 16}

OvertakeTrainTables ==
    {[id \in {1, 2} \cup third |->
         IF id = 1 THEN Train(1, 1, a[1], a[2], 2, 5)
         ELSE IF id = 2 THEN Train(2, 1, b[1], b[2], 2, 5)
         ELSE Train(3, 1, 13, 80, 2, 5)] :
        a \in OvertakePositions \X {0, 80}, b \in OvertakePositions \X {0, 80},
        third \in {{}, {3}}}

InitOvertake ==
    /\ \E trs \in OvertakeTrainTables : Populated(ReadmeTracks, trs)
    /\ request = <<>>

NextOvertake == detect_conflicts

SpecOvertake == InitOvertake /\ [][NextOvertake]_vars

\* two different trains of the model that stand on the double track k
OnDoubleTrack(a, b, k) ==
    /\ a # b
    /\ k \in DOMAIN tracks
    /\ ~tracks[k].is_single_track
    /\ trains[a].current_track = k
    /\ trains[b].current_track = k

OvertakingReports(a, b, k) ==
    {i \in PairReports(a, b) :
        /\ ret.value[i].conflict_type = "overtaking"
        /\ ret.value[i].track_id = k
        /\ ret.value[i].severity = 5}

KmApart(a, b) ==
    IF trains[a].position_km >= trains[b].position_km
    THEN trains[a].position_km - trains[b].position_km
    ELSE trains[b].position_km - trains[a].position_km

\* C24: for two trains on the same double track, detect_conflicts reports an
\* overtaking conflict of severity 5 for the pair if and only if they are
\* strictly less than 2.0 km apart, whatever their velocities and their
\* halves of the track; a pair 2.0 km apart or more has no pairwise conflict.
C24_OvertakingIffCloserThanTwoKm ==
    Detected =>
        \A a \in DOMAIN trains : \A b \in DOMAIN trains : \A k \in DOMAIN tracks :
            OnDoubleTrack(a, b, k) =>
                IF KmApart(a, b) < 2
                THEN /\ Cardinality(OvertakingReports(a, b, k)) = 1
                     /\ PairReports(a, b) = OvertakingReports(a, b, k)
                ELSE PairReports(a, b) = {}

\* a pair exactly 2 km apart goes unreported next to a reported pair that
\* straddles the middle of the track
C24_Witness ==
    /\ Detected
    /\ \E a \in DOMAIN trains : \E b \in DOMAIN trains :
           OnDoubleTrack(a, b, 1) /\ KmApart(a, b) = 2 /\ PairReports(a, b) = {}
    /\ \E a \in DOMAIN trains : \E b \in DOMAIN trains :
           /\ OnDoubleTrack(a, b, 1)
           /\ 2 * trains[a].position_km < tracks[1].length_km
           /\ 2 * trains[b].position_km >= tracks[1].length_km
           /\ OvertakingReports(a, b, 1) # {}

\* C25: the estimated time of an overtaking conflict is
\* |p1 - p2| / (v1 + v2) * 60 minutes, the formula of the head-on meeting
\* time, for every pair of positions and velocities.
C25_OvertakingTimeIsMeetingTime ==
    Detected =>
        \A i \in DOMAIN ret.value :
            ret.value[i].conflict_type = "overtaking" =>
                LET a == ret.value[i].train1_id
                    b == ret.value[i].train2_id
                    time == ret.value[i].estimated_collision_time_minutes
                    v == trains[a].velocity_kmh + trains[b].velocity_kmh
                IN  IF v = 0
                    THEN time[2] = 0
                    ELSE time[2] # 0 /\ time[1] * v = KmApart(a, b) * 60 * time[2]

\* the trains named by the capacity_exceeded conflicts of track k, in the
\* order of the returned list
FlaggedOn(k) ==
    LET reports == SelectSeq(ret.value,
                       LAMBDA c : c.conflict_type = "capacity_exceeded" /\ c.track_id = k)
    IN  [i \in DOMAIN reports |-> reports[i].train1_id]

\* the entries of the track's active list beyond the first capacity ones
BeyondCapacity(k) ==
    LET list == tracks[k].active_train_ids
    IN  [i \in 1..(IF Len(list) > tracks[k].capacity THEN Len(list) - tracks[k].capacity ELSE 0)
            |-> list[tracks[k].capacity + i]]

\* C26: the trains named by the capacity_exceeded conflicts of a track are
\* exactly the entries of its active_train_ids beyond the first capacity
\* ones, in list order, so the trains registered earliest are never flagged.
C26_LatestRegisteredAreFlagged ==
    Detected => \A k \in DOMAIN tracks : FlaggedOn(k) = BeyondCapacity(k)

\* how many times the list names the train
Occurrences(list, id) == Len(SelectSeq(list, LAMBDA x : x = id))

\* the effect of a switch of the train to track T on the lists and on
\* current_track
SwitchedTo(id, T) ==
    /\ trains'[id].current_track = T
    /\ Occurrences(tracks'[T].active_train_ids, id) = 1
    /\ \A k \in DOMAIN tracks \ {T} :
           IF k = trains[id].current_track
           THEN Occurrences(tracks'[k].active_train_ids, id) = 0
           ELSE tracks'[k].active_train_ids = tracks[k].active_train_ids

-----------------------------------------------------------------------------
(* SpecSwitch: single adjustments applied to trains that were added, and
   added again by a later report, on the two tracks of the README network *)

SwitchInputs ==
    {Adjustment(id, m, k) : id \in {1, 2}, m \in {0, 5}, k \in {NoTrack, 0, 1}}

InitSwitch ==
    /\ \E trs \in ApplyTrainTables : Populated(ReadmeTracks, trs)
    /\ request \in {<<adj>> : adj \in SwitchInputs}

\* the add_train calls so far, as the log shows them
Added == Len(SelectSeq(event_log, LAMBDA m : m = "added"))

AddAnyTrain ==
    /\ Added < MaxTrains
    /\ \E id \in {1, 2}, k \in {0, 1} : add_train(Train(id, k, 5, 100, 1, 5))

NextSwitch == ApplyRequest \/ AddAnyTrain

SpecSwitch == InitSwitch /\ [][NextSwitch]_vars

\* C27: an adjustment of a train of the model whose new_track_id names a
\* track T of the model other than the train's current track leaves the
\* train with current_track T, listed exactly once on T, not listed on its
\* old track, and every other list as it was; an adjustment with new_track_id
\* -1 or equal to the current track changes no list and no current_track.
C27_SwitchMovesRegistration ==
    [][(ApplyRequest /\ Len(request) = 1 /\ request[1].train_id \in DOMAIN trains) =>
          LET adj == request[1]
          IN  IF /\ adj.new_track_id \in DOMAIN tracks
                 /\ adj.new_track_id # trains[adj.train_id].current_track
              THEN SwitchedTo(adj.train_id, adj.new_track_id)
              ELSE (adj.new_track_id = -1
                    \/ adj.new_track_id = trains[adj.train_id].current_track)
                       => TrackDataUnchanged]_vars

\* C28: for every train of the model, is_delayed is true exactly when
\* delay_minutes is above 0, in every state add_train, update_train_state
\* and apply_adjustments lead to.
C28_DelayedIffDelayMinutes ==
    \A id \in DOMAIN trains : trains[id].is_delayed <=> trains[id].delay_minutes > 0

-----------------------------------------------------------------------------
(* SpecDivert: resolve_single_track_conflicts with several station tracks.
   Track 0 is the single track of 50 km between stations 0 and 1 where trains
   1 and 2 stand; tracks 1 and 2 are double tracks from station 1, to
   stations 2 and 3; track 3 is a second single track between stations 1
   and 2, always empty.  Trains 3, 4 and 5, when present, stand on track 1
   or 2 *)

DivertNetworks ==
    {<<Track(0, 50, TRUE, 2, <<0, 1>>), Track(1, 30, FALSE, c[1], <<1, 2>>),
       Track(2, 30, FALSE, c[2], <<1, 3>>), Track(3, 20, TRUE, 5, <<1, 2>>)>> :
        c \in {<<1, 3>>, <<3, 2>>, <<2, 2>>}}

\* <<position_km, destination_station>>: 25 km is far from both ends, station
\* 1 is on tracks 1, 2 and 3, station 3 on track 2, station 0 on no other track
DivertPlaces == {<<25, 1>>, <<10, 1>>, <<40, 3>>, <<0, 0>>}

DivertTrainTables ==
    {[id \in {1, 2} \cup DOMAIN where |->
         IF id = 1 THEN Train(1, 0, pl[1], 80, pl[2], 9)
         ELSE IF id = 2 THEN Train(2, 0, 10, 80, 1, 5)
         ELSE Train(id, where[id], 15, 80, 2, 5)] :
        pl \in DivertPlaces,
        where \in UNION {[others -> {1, 2}] : others \in SUBSET {3, 4, 5}}}

DivertConflictInputs ==
    {<<Conflict(1, 2, 0, "head_on", HeadOnSeverity)>>,
     <<CapacityConflict(1, 0)>>,
     <<Conflict(1, 2, 0, "head_on", HeadOnSeverity),
       Conflict(3, 4, 1, "overtaking", OvertakingSeverity)>>}

InitDivert ==
    /\ \E tks \in DivertNetworks : \E trs \in DivertTrainTables : Populated(tks, trs)
    /\ request \in DivertConflictInputs

NextDivert == ResolveSingleTrackConflicts(request)

SpecDivert == InitDivert /\ [][NextDivert]_vars

\* the train is within 10 km of a station of track k
NearStationOn(id, k) ==
    \E s \in {0, tracks[k].length_km} \cup {m \in 1..(tracks[k].length_km - 1) : m % 50 = 0} :
        (trains[id].position_km - s) <= 10 /\ (s - trains[id].position_km) <= 10

\* the multi-track tracks other than k that connect to the train's
\* destination and list fewer trains than their capacity
StationTracksFor(id, k) ==
    {o \in DOMAIN tracks \ {k} :
        /\ ~tracks[o].is_single_track
        /\ \E n \in DOMAIN tracks[o].station_ids :
               tracks[o].station_ids[n] = trains[id].destination_station
        /\ Len(tracks[o].active_train_ids) < tracks[o].capacity}

DivertedToLeastUsed(id, k) ==
    /\ Len(AdjustmentsFor(id)) = 1
    /\ AdjustmentsFor(id)[1].time_adjustment_minutes = 10
    /\ AdjustmentsFor(id)[1].confidence = 85
    /\ AdjustmentsFor(id)[1].new_track_id \in StationTracksFor(id, k)
    /\ \A o \in StationTracksFor(id, k) :
           Len(tracks[AdjustmentsFor(id)[1].new_track_id].active_train_ids)
               <= Len(tracks[o].active_train_ids)

\* C29: a train implicated on a single track, within 10 km of a station of
\* that track, is diverted (1.0 minute, confidence 0.85) whenever some other
\* multi-track track connects to its destination and lists fewer trains than
\* its capacity, to one of those tracks that lists the fewest; a train that
\* is not near a station, or has no such track, is not diverted by this rule.
C29_DivertsToLeastUsedStationTrack ==
    (SingleResolved /\ NamesTrains(ret.args[1])) =>
        \A k \in {t \in DOMAIN tracks : tracks[t].is_single_track} :
            \A id \in Implicated(ret.args[1], k) \cap DOMAIN trains :
                IF NearStationOn(id, k) /\ StationTracksFor(id, k) # {}
                THEN DivertedToLeastUsed(id, k)
                ELSE \A i \in DOMAIN ret.value :
                         ret.value[i].train_id = id => ret.value[i].confidence # 85

\* train 1 had two station tracks with room and went to the one listing
\* fewer trains, which the loop over tracks met after the other one
C29_Witness ==
    /\ SingleResolved
    /\ 1 \in Implicated(ret.args[1], 0)
    /\ StationTracksFor(1, 0) = {1, 2}
    /\ Len(tracks[1].active_train_ids) > Len(tracks[2].active_train_ids)
    /\ \E i, j \in DOMAIN tracks_iter :
           i < j /\ tracks_iter[i] = 1 /\ tracks_iter[j] = 2
    /\ DivertedToLeastUsed(1, 0)
    /\ AdjustmentsFor(1)[1].new_track_id = 2

\* the train has a "waiting for priority train" adjustment in the returned list
Waits(id) ==
    \E i \in DOMAIN ret.value :
        /\ ret.value[i].train_id = id
        /\ ret.value[i].new_track_id = -1
        /\ ret.value[i].confidence = 70

\* C30: for every single track whose conflicts implicate trains of the
\* model, whatever their priorities (0 and negative ones included), an
\* implicated train of the highest priority has no "waiting for priority
\* train" adjustment, so the trains of a group are never all made to wait.
C30_TopPriorityNeverWaits ==
    (SingleResolved /\ NamesTrains(ret.args[1])) =>
        \A k \in {t \in DOMAIN tracks : tracks[t].is_single_track} :
            LET ids == Implicated(ret.args[1], k) \cap DOMAIN trains
            IN  ids # {} =>
                    \E id \in ids : /\ \A u \in ids : PriorityOf(id) >= PriorityOf(u)
                                    /\ ~Waits(id)

-----------------------------------------------------------------------------
(* SpecNear: is_near_station on tracks of 30, 50, 100 and 120 km, for trains
   at the ends, around the stations at 50 and 100 km, between them and
   beyond the end of the track, with the thresholds of the two strategies
   and 0 *)

NearLengths == {30, 50, 100, 120}

NearPositions ==
    {0, 4, 5, 6, 10, 11, 15, 20, 25, 30, 39, 40, 41, 44, 45, 46, 50, 55, 56, 60, 61,
     75, 89, 90, 94, 95, 96, 100, 105, 106, 109, 110, 111, 114, 115, 116, 120, 125, 131}

NearThresholds == {0, NearStationA, NearStationB}

\* request holds the train and the track of the calls
InitNear ==
    /\ \E trs \in {[id \in {1} |-> Train(1, 0, 5, 100, 1, 5)]} : Populated(ReadmeTracks, trs)
    /\ request \in {<<Train(1, 0, p, 80, 1, 5), Track(0, len, TRUE, 1, <<0, 1>>)>> :
                       p \in NearPositions, len \in NearLengths}

NextNear == \E d \in NearThresholds : IsNearStation(request[1], request[2], d)

SpecNear == InitNear /\ [][NextNear]_vars

NearAsked == ret.op = "is_near_station"

\* the positions of the stations of a track of the given length: 0, the
\* length, and the positive multiples of 50 strictly below the length
StationPositions(len) == {0, len} \cup {m \in 1..(len - 1) : m % 50 = 0}

WithinOfStation(p, len, d) ==
    \E s \in StationPositions(len) : p - s <= d /\ s - p <= d

\* C31: is_near_station(train, track, d) is true exactly when position_km is
\* within d (<=) of 0, of length_km or of a positive multiple of 50 km
\* strictly below length_km; so a train near a station for d = 5.0 is near a
\* station for d = 10.0.
C31_NearIffWithinOfStation ==
    NearAsked =>
        /\ ret.value = WithinOfStation(ret.args[1].position_km, ret.args[2].length_km,
                                       ret.args[3])
        /\ (ret.args[3] = 5 /\ ret.value) =>
               is_near_station(ret.args[1], ret.args[2], 10)

\* a train at 105 km of a 120 km track is near the station at 100 km only,
\* and a train at 110 km is near for 10 km but not for 5 km
C31_Witness ==
    /\ NearAsked
    /\ ret.args[2].length_km = 120
    /\ \/ ret.args[1].position_km = 105 /\ ret.args[3] = 5 /\ ret.value
       \/ ret.args[1].position_km = 110 /\ ret.args[3] = 5 /\ ~ret.value

-----------------------------------------------------------------------------
(* SpecPrioritize: prioritize_conflicts on batches of head-on, overtaking
   and capacity conflicts *)

PrioritizeInputs ==
    { Conflict(1, 2, 0, "head_on", HeadOnSeverity),
      Conflict(2, 3, 0, "head_on", HeadOnSeverity),
      Conflict(1, 2, 1, "overtaking", OvertakingSeverity),
      CapacityConflict(3, 0) }

InitPrioritize ==
    /\ \E trs \in ApplyTrainTables : Populated(ReadmeTracks, trs)
    /\ request \in SeqsUpTo(PrioritizeInputs, MaxConflicts + 1)

NextPrioritize == PrioritizeConflicts(request)

SpecPrioritize == InitPrioritize /\ [][NextPrioritize]_vars

Prioritized == ret.op = "prioritize_conflicts"

\* how many elements of the list equal c
TimesIn(list, c) == Cardinality({i \in DOMAIN list : list[i] = c})

\* C32: prioritize_conflicts returns a permutation of its input in order of
\* non-increasing severity, so every head_on conflict (severity 10) of the
\* output comes before every overtaking conflict (severity 5).
C32_SortedBySeverity ==
    Prioritized =>
        /\ Len(ret.value) = Len(ret.args[1])
        /\ \A c \in PrioritizeInputs : TimesIn(ret.value, c) = TimesIn(ret.args[1], c)
        /\ \A i, j \in DOMAIN ret.value :
               i < j => ret.value[i].severity >= ret.value[j].severity
        /\ \A i, j \in DOMAIN ret.value :
               (ret.value[i].conflict_type = "head_on"
                /\ ret.value[j].conflict_type = "overtaking") => i < j

\* an overtaking conflict was handed in before a capacity and a head-on
\* conflict and comes out last
C32_Witness ==
    /\ Prioritized
    /\ Len(ret.args[1]) = 3
    /\ ret.args[1][1].conflict_type = "overtaking"
    /\ ret.args[1][2].conflict_type = "capacity_exceeded"
    /\ ret.args[1][3].conflict_type = "head_on"
    /\ ret.value[1].conflict_type = "head_on"
    /\ ret.value[3].conflict_type = "overtaking"

-----------------------------------------------------------------------------
(* SpecStats: get_statistics between the updates, removals and adjustments
   of SpecApply *)

NextStats == NextApply \/ GetStatistics

SpecStats == InitApply /\ [][NextStats]_vars

Reported == ret.op = "get_statistics"

DelayedTrains == {id \in DOMAIN trains : trains[id].is_delayed}

\* C33: get_statistics reports the number of trains, the number of trains
\* with is_delayed set, the number of conflicts detect_conflicts returns on
\* the same state, and network_efficiency = 1 - delayed_trains/total_trains
\* (1.0 without trains); so 0 <= delayed_trains <= total_trains and the
\* efficiency is 1 exactly when no train is delayed.
C33_StatisticsCountTheModel ==
    Reported =>
        LET stats == ret.value
            total == Cardinality(DOMAIN trains)
            eff   == stats.network_efficiency
        IN  /\ stats.total_trains = total
            /\ stats.delayed_trains = Cardinality(DelayedTrains)
            /\ \A titer \in Perms(DOMAIN trains) :
                   stats.active_conflicts =
                       Len(DetectOn(trains, tracks, titer, groups_iter))
            /\ eff[2] > 0
            /\ IF total = 0 THEN eff[1] = eff[2]
               ELSE eff[1] * total = (total - stats.delayed_trains) * eff[2]
            /\ 0 <= stats.delayed_trains /\ stats.delayed_trains <= total
            /\ (eff[1] = eff[2]) <=> (DelayedTrains = {})

\* one of two trains is delayed: efficiency 1/2
C33_Witness ==
    /\ Reported
    /\ Cardinality(DOMAIN trains) = 2
    /\ ret.value.delayed_trains = 1
    /\ ret.value.network_efficiency[1] * 2 = ret.value.network_efficiency[2]

-----------------------------------------------------------------------------
(* SpecOptimize: optimize_network called again and again on the README
   network.  Train 1 stands on the single track 0; train 2 on track 0 or on
   the double track 1; train 3, when present, on track 1.  LiveOptimize adds
   that the caller keeps calling as long as a call is allowed *)

OptimizeTrainTables ==
    {[id \in {1, 2} \cup third |->
         IF id = 1 THEN Train(1, 0, p1, 100, 1, pr)
         ELSE IF id = 2 THEN Train(2, p2[1], p2[2], 80, 1, 7)
         ELSE Train(3, 1, 12, 80, 2, 5)] :
        p1 \in {3, 5, 20}, pr \in {5, 9},
        p2 \in {<<0, 30>>, <<0, 45>>, <<1, 10>>, <<1, 13>>}, third \in {{}, {3}}}

InitOptimize ==
    /\ \E trs \in OptimizeTrainTables : Populated(ReadmeTracks, trs)
    /\ request = <<>>

\* the optimize_network calls that found conflicts, as the log shows them
Optimized == Len(SelectSeq(event_log, LAMBDA m : m = "optimized"))

OptimizeNetwork == Optimized < MaxCycles /\ optimize_network

NextOptimize == OptimizeNetwork

SpecOptimize == InitOptimize /\ [][NextOptimize]_vars

LiveOptimize == SpecOptimize /\ WF_vars(OptimizeNetwork)

\* detect_conflicts would report a conflict between two trains
TwoTrainConflict ==
    \E titer \in Perms(DOMAIN trains) : \E giter \in Perms(GroupKeys(trains)) :
        \E i \in DOMAIN DetectOn(trains, tracks, titer, giter) :
            DetectOn(trains, tracks, titer, giter)[i].train2_id # -1

-----------------------------------------------------------------------------
(* SpecBatch: the cycle detect_conflicts -> resolve_conflicts ->
   apply_adjustments with several conflicts in one batch.  Track 0 is a single
   track of 50 km with room for its three trains; trains 1 and 2 stand in its
   first half, train 3, of the highest priority, in the second half, all at
   150 km/h; track 1 is a double track from station 1 with one to three
   places, one of them taken when train 4 is present *)

BatchNetworks ==
    {<<Track(0, 50, TRUE, 3, <<0, 1>>), Track(1, 30, FALSE, c, <<1, 2>>)>> : c \in 1..3}

BatchTrainTables ==
    {[id \in {1, 2, 3} \cup fourth |->
         IF id = 1 THEN Train(1, 0, p1, 150, 1, 5)
         ELSE IF id = 2 THEN Train(2, 0, p2, 150, 1, pr)
         ELSE IF id = 3 THEN Train(3, 0, p3, 150, 1, 9)
         ELSE Train(4, 1, 15, 80, 2, 5)] :
        p1 \in {3, 8}, p2 \in {4, 9}, pr \in {5, 6}, p3 \in {26, 40}, fourth \in {{}, {4}}}

InitBatch ==
    /\ \E net \in BatchNetworks, trs \in BatchTrainTables : Populated(net, trs)
    /\ request = <<>>

NextBatch == DetectConflicts \/ ResolveDetected \/ ApplyResolved

SpecBatch == InitBatch /\ [][NextBatch]_vars

\* the number of trains of the table assigned to track k
AssignedCount(trs, k) == Cardinality({id \in DOMAIN trs : trs[id].current_track = k})

\* C35: applying the adjustments of one resolve_conflicts call leaves every
\* track that held no more trains than its capacity within its capacity,
\* also when several conflicts of the batch were resolved by a switch to the
\* same track.
C35_BatchKeepsCapacity ==
    [][ApplyResolved =>
          \A k \in DOMAIN tracks :
              AssignedCount(trains, k) <= tracks[k].capacity
                  => AssignedCount(trains', k) <= tracks[k].capacity]_vars

-----------------------------------------------------------------------------
(* SpecStale: the caller holds the list detect_conflicts returned on the
   network of SpecBatch (request), trains are removed, and resolve_conflicts
   is called with the list *)

InitStale ==
    /\ \E net \in BatchNetworks, trs \in BatchTrainTables : Populated(net, trs)
    /\ request \in {DetectOn(trains, tracks, titer, giter) :
                       titer \in Perms(DOMAIN trains), giter \in Perms(GroupKeys(trains))}

ResolveHeld == ResolveConflicts(request)

NextStale == RemoveAnyTrain \/ ResolveHeld

SpecStale == InitStale /\ [][NextStale]_vars

\* the call ended with the exception instead of a list
Threw == ToString(ret.value) = ToString(OutOfRange)

\* the trains the list names that are no longer in the model
RemovedTrains(conflicts) ==
    ({conflicts[i].train1_id : i \in DOMAIN conflicts}
        \cup {conflicts[i].train2_id : i \in DOMAIN conflicts}) \ (DOMAIN trains \cup {-1})

\* C36: when a train named by the list detect_conflicts returned has been
\* removed before resolve_conflicts is called with the list, the call
\* completes without an error and no adjustment names the removed train.
C36_StaleConflictsTolerated ==
    (ret.op = "resolve_conflicts" /\ RemovedTrains(ret.args[1]) # {}) =>
        /\ ~Threw
        /\ \A i \in DOMAIN ret.value :
               ret.value[i].train_id \notin RemovedTrains(ret.args[1])

-----------------------------------------------------------------------------
(* SpecCallers: two callers of one scheduler, each running detect_conflicts,
   resolve_conflicts on the result and apply_adjustments on the adjustments.
   Every call runs as a whole; the calls of the two callers interleave in
   any order.  request holds what the callers hold: for each caller the next
   call to make and the vector the last call returned; and the trains and
   tracks the two started from *)

Callers == {1, 2}

InitCallers ==
    /\ \E net \in BatchNetworks, trs \in BatchTrainTables : Populated(net, trs)
    /\ request = [caller |-> [c \in Callers |-> [next |-> "detect_conflicts", held |-> <<>>]],
                  start |-> [trains |-> trains, tracks |-> tracks, log |-> <<>>]]

Holds(c, next, held) ==
    request' = [request EXCEPT !.caller[c] = [next |-> next, held |-> held]]

\* auto conflicts = scheduler.detect_conflicts();
CallerDetects(c) ==
    /\ request.caller[c].next = "detect_conflicts"
    /\ \E titer \in FixIter(trains_iter, DOMAIN trains) :
       \E giter \in FixIter(groups_iter, GroupKeys(trains)) :
       \E conflicts \in {DetectOn(trains, tracks, titer, giter)} :
           /\ trains_iter' = titer
           /\ groups_iter' = giter
           /\ ret' = Ret("detect_conflicts", <<>>, conflicts)
           /\ Holds(c, "resolve_conflicts", conflicts)
    /\ UNCHANGED <<modelVars, tracks_iter, total_optimizations>>

\* auto adjustments = scheduler.resolve_conflicts(conflicts);
CallerResolves(c) ==
    /\ request.caller[c].next = "resolve_conflicts"
    /\ \E kiter \in FixIter(tracks_iter, DOMAIN tracks) :
       \E adjustments \in {resolve_conflicts(request.caller[c].held, trains, tracks,
                                             kiter, ml_model_loaded_)} :
           /\ tracks_iter' = kiter
           /\ ret' = Ret("resolve_conflicts", <<request.caller[c].held>>, adjustments)
           /\ Holds(c, "apply_adjustments", adjustments)
    /\ UNCHANGED <<modelVars, trains_iter, groups_iter, total_optimizations>>

\* scheduler.apply_adjustments(adjustments);
CallerApplies(c) ==
    /\ request.caller[c].next = "apply_adjustments"
    /\ \E st \in {ApplyLoop([trains |-> trains, tracks |-> tracks, log |-> event_log],
                            request.caller[c].held)} :
           /\ trains' = st.trains
           /\ tracks' = st.tracks
           /\ event_log' = st.log
           /\ groups_iter' = GroupsIterAfter(st.trains, trains_iter)
    /\ ret' = NoRet
    /\ Holds(c, "done", <<>>)
    /\ UNCHANGED <<stations, ml_model_loaded_, trains_iter, tracks_iter,
                   total_optimizations>>

NextCallers ==
    \E c \in Callers : CallerDetects(c) \/ CallerResolves(c) \/ CallerApplies(c)

SpecCallers == InitCallers /\ [][NextCallers]_vars

\* the trains and tracks after one cycle run alone from st, for every order
\* in which the tables can be visited
CycleOutcomes(st) ==
    {[ApplyLoop(st, resolve_conflicts(DetectOn(st.trains, st.tracks, titer, giter),
                                      st.trains, st.tracks, kiter, FALSE))
         EXCEPT !.log = <<>>] :
        titer \in Perms(DOMAIN st.trains), giter \in Perms(GroupKeys(st.trains)),
        kiter \in Perms(DOMAIN st.tracks)}

\* after the two cycles, one after the other
SerialOutcomes(st) == UNION {CycleOutcomes(mid) : mid \in CycleOutcomes(st)}

BothDone == \A c \in Callers : request.caller[c].next = "done"

\* C37: when the calls of two callers that each run detect_conflicts ->
\* resolve_conflicts -> apply_adjustments interleave, the trains
\* (current_track, delay_minutes, scheduled_arrival_minutes) and the active
\* lists of the tracks end as they do when the two cycles run one after the
\* other.
C37_InterleavingIsSerializable ==
    BothDone =>
        \E out \in SerialOutcomes(request.start) :
            /\ \A id \in DOMAIN trains :
                   /\ trains[id].current_track = out.trains[id].current_track
                   /\ trains[id].delay_minutes = out.trains[id].delay_minutes
                   /\ trains[id].scheduled_arrival_minutes =
                          out.trains[id].scheduled_arrival_minutes
            /\ \A k \in DOMAIN tracks :
                   tracks[k].active_train_ids = out.tracks[k].active_train_ids

-----------------------------------------------------------------------------
(* SpecSentinel: are_trains_in_conflict asked about trains of the model,
   about an id that no train has, and about -1, on the networks of SpecCycle,
   where track 0 has room for one train *)

AskedIds == {NoTrain, 1, 2, 3} \cup UnknownTrainIds

AskAnyPair == \E a \in AskedIds, b \in AskedIds : are_trains_in_conflict(a, b)

NextSentinel == AskAnyPair

SpecSentinel == InitCycle /\ [][NextSentinel]_vars

\* C38: are_trains_in_conflict(a, b) is true only when a and b are both ids
\* of trains of the model; it is false when one of them is -1, also when the
\* other train is named by a capacity_exceeded conflict.
C38_InConflictOnlyForTrains ==
    (ret.op = "are_trains_in_conflict" /\ ret.value) =>
        /\ ret.args[1] \in DOMAIN trains
        /\ ret.args[2] \in DOMAIN trains

\* C39: for every conflict of the list handed to
\* resolve_single_track_conflicts that names two trains of the model, some
\* adjustment of the returned list names one of the two, also when the list
\* mixes conflicts on single tracks with conflicts on multi-track tracks.
C39_EveryPairConflictAddressed ==
    (SingleResolved /\ NamesTrains(ret.args[1])) =>
        \A i \in DOMAIN ret.args[1] :
            (/\ ret.args[1][i].train1_id \in DOMAIN trains
             /\ ret.args[1][i].train2_id \in DOMAIN trains) =>
                \E j \in DOMAIN ret.value :
                    ret.value[j].train_id \in {ret.args[1][i].train1_id,
                                               ret.args[1][i].train2_id}

-----------------------------------------------------------------------------
(* SpecJson: detect_conflicts_json and optimize_json on one input string.
   A string is a sequence of characters; a quoted key is one element of
   it.  The caller's variable holds the call in progress: the function, the
   input, the position of control, and parse_trains_from_json's pos and
   trains. *)

\* std::string::npos, the largest size_t; sizes are kept modulo npos + 1
npos == 65535
SizeAdd(a, b) == (a + b) % (npos + 1)

TrainsKey == "\"trains\""
IdKey == "\"id\""

\* std::string::find(ch, pos) and find_first_of(chars, pos), 0-based
FindFirstOf(str, chars, pos) ==
    LET hits == {i \in 0..(Len(str) - 1) : i >= pos /\ str[i + 1] \in chars}
    IN  IF hits = {} THEN npos ELSE CHOOSE i \in hits : \A k \in hits : i <= k
Find(str, ch, pos) == FindFirstOf(str, {ch}, pos)

\* std::string::substr(pos, n), for pos <= size
Substr(str, pos, n) ==
    LET last == IF pos + n > Len(str) THEN Len(str) ELSE pos + n
    IN  [i \in 1..(last - pos) |-> str[pos + i]]

InvalidArgument == [exception |-> "std::invalid_argument"]

\* std::stoi on the characters of the model: the leading digits, or
\* std::invalid_argument when the text does not start with one
RECURSIVE LeadingDigits(_)
LeadingDigits(text) ==
    IF text = <<>> \/ Head(text) # "1" THEN 0 ELSE 1 + LeadingDigits(Tail(text))
RECURSIVE Ones(_)
Ones(n) == IF n = 0 THEN 0 ELSE 10 * Ones(n - 1) + 1
Stoi(text) ==
    IF LeadingDigits(text) = 0 THEN InvalidArgument ELSE Ones(LeadingDigits(text))

StoiThrew(value) == ToString(value) = ToString(InvalidArgument)

\* what the function returns once the trains are parsed, or from its catch
\* block; the record stands for the JSON text built from these values
JsonResult(call) ==
    IF call.pc = "thrown"
    THEN IF call.fn = "detect_conflicts_json"
         THEN [conflicts |-> <<>>, total_conflicts |-> 0, success |-> FALSE]
         ELSE [resolutions |-> <<>>, remaining_conflicts |-> <<>>,
               total_delay_minutes |-> 0, success |-> FALSE]
    ELSE IF call.fn = "detect_conflicts_json"
         THEN [conflicts |-> api_detect_conflicts(call.trains),
               total_conflicts |-> Len(api_detect_conflicts(call.trains)),
               success |-> TRUE]
         ELSE api_optimize(call.trains)

\* The values a step computes are bound by quantifiers over one-element
\* sets, in the order in which the code computes them.

\* the call enters parse_trains_from_json, which runs up to its loop
JsonCall ==
    /\ request.pc = "call"
    /\ \E trains_pos \in {Find(request.json, TrainsKey, 0)} :
       \E array_start \in {Find(request.json, "[", trains_pos)} :
           request' = IF trains_pos = npos \/ array_start = npos
                      THEN [request EXCEPT !.pc = "parsed"]
                      ELSE [request EXCEPT !.pc = "loop", !.pos = array_start + 1]
    /\ UNCHANGED <<modelVars, iterVars, total_optimizations, ret>>

\* the lambda extract_int, once the key and its colon are looked up
extract_int(obj, k, colon, comma) ==
    IF k = npos THEN 0
    ELSE IF colon = npos THEN 0
    ELSE Stoi(Substr(obj, colon + 1, comma - colon - 1))

\* one pass of the loop of parse_trains_from_json; the strings of the model
\* hold no key but "id", so every other field is extracted as 0 or false
JsonParseObject ==
    /\ request.pc = "loop"
    /\ Len(request.trains) < MaxParsed
    /\ \E json \in {request.json} :
       \E obj_start \in {Find(json, "{", request.pos)} :
       \E obj_end \in {Find(json, "}", obj_start)} :
       \E obj \in {Substr(json, obj_start, obj_end - obj_start + 1)} :
       \E k \in {Find(obj, IdKey, 0)} :
       \E colon \in {Find(obj, ":", k)} :
       \E comma \in {FindFirstOf(obj, {",", "}"}, colon)} :
       \E id \in {extract_int(obj, k, colon, comma)} :
       \E pos \in {obj_end + 1} :
       \E next_comma \in {Find(json, ",", pos)} :
       \E array_end \in {Find(json, "]", pos)} :
           request' =
               IF ~(request.pos < Len(json)) THEN [request EXCEPT !.pc = "parsed"]
               ELSE IF obj_start = npos \/ obj_end = npos
                    THEN [request EXCEPT !.pc = "parsed"]
               ELSE IF StoiThrew(id) THEN [request EXCEPT !.pc = "thrown"]
               ELSE IF array_end < next_comma
                    THEN [request EXCEPT !.pc = "parsed",
                                         !.trains = Append(@, Train(id, 0, 0, 0, 0, 0))]
                    ELSE [request EXCEPT !.pos = SizeAdd(next_comma, 1),
                                         !.trains = Append(@, Train(id, 0, 0, 0, 0, 0))]
    /\ UNCHANGED <<modelVars, iterVars, total_optimizations, ret>>

\* the function builds its answer and returns it
JsonReturn ==
    /\ request.pc \in {"parsed", "thrown"}
    /\ \E result \in {JsonResult(request)} :
           ret' = Ret(request.fn, <<request.json>>, result)
    /\ request' = [request EXCEPT !.pc = "done"]
    /\ total_optimizations' =
           IF request.fn = "optimize_json" /\ request.pc = "parsed"
           THEN total_optimizations + 1 ELSE total_optimizations
    /\ UNCHANGED <<modelVars, iterVars>>

\* the start of an input: a "trains" array, a "trains" key without its
\* array, or an array without the key
JsonHeads ==
    {<<"{", TrainsKey, ":", "[">>, <<"{", TrainsKey, ":">>, <<"[">>}

JsonPieces ==
    {<<"{", "}">>, <<"{", "}", ",">>,
     <<"{", IdKey, ":", "1", "}">>, <<"{", IdKey, ":", "x", "}">>,
     <<"{">>, <<"]">>, <<",">>}

JsonInputs ==
    {head \o Flatten(pieces) :
        head \in JsonHeads, pieces \in SeqsUpTo(JsonPieces, MaxPieces)}

InitJson ==
    /\ Constructed
    /\ request \in [fn : {"detect_conflicts_json", "optimize_json"},
                    json : JsonInputs, pc : {"call"}, pos : {0}, trains : {<<>>}]

NextJson == JsonCall \/ JsonParseObject \/ JsonReturn

SpecJson == InitJson /\ [][NextJson]_vars

\* the call is one thread of control: a step it can take, it takes
LiveJson == SpecJson /\ WF_vars(NextJson)

JsonReturned == ret.op \in {"detect_conflicts_json", "optimize_json"}

====
